---- MODULE Spec2Model ----
(***************************************************************************)
(* A model of the NHL player database generator (src/cli/src/main.rs):     *)
(* the team identity tables, the directory aggregation strategy driven by  *)
(* main, the legacy strategy (build_database_legacy) and the schedule      *)
(* fetcher (fetch_team_schedule).                                           *)
(*                                                                         *)
(* Strings that are only compared for equality (team codes, team full      *)
(* names) are TLA+ strings.  Strings whose order or letter case matters    *)
(* (player names, ids, season codes) are sequences of bytes, compared the  *)
(* way Rust compares str: lexicographically by byte.                       *)
(***************************************************************************)
EXTENDS Integers, Sequences, FiniteSets, TLC

(***************************************************************************)
(* Bounds of the model.                                                    *)
(***************************************************************************)
\* Longest player directory the search API returns.
MaxPlayers == 2
\* Longest seasonTotals list of one player landing page.
MaxTotals == 2
\* Longest list of seasons given to the legacy strategy.
MaxSeasons == 2
\* Longest list of players of a team in the database the service reads.
MaxEntries == 2
\* The requests for /submit_daily in flight at once.
MaxRequests == 2

(***************************************************************************)
(* Option<T> and Result<T, E>.                                             *)
(***************************************************************************)
None == [some |-> FALSE]
Some(x) == [some |-> TRUE, val |-> x]

Ok(x) == [ok |-> TRUE, val |-> x]
Err(kind) == [ok |-> FALSE, err |-> kind]

\* The three ways a request fails: send() fails, the status is not 2xx,
\* the body does not parse into the expected schema.
TransportError == "TransportError"
HttpStatusError == "HttpStatusError"
ParseError == "ParseError"
FetchErrors == {TransportError, HttpStatusError, ParseError}

Range(s) == {s[i] : i \in DOMAIN s}

SeqsUpTo(S, n) == UNION {[1..k -> S] : k \in 0..n}

(***************************************************************************)
(* Byte strings.                                                           *)
(***************************************************************************)
\* u64 / u32 to_string(): the decimal digits, most significant first.
RECURSIVE to_string(_)
to_string(n) ==
    IF n < 10 THEN <<48 + n>>
    ELSE to_string(n \div 10) \o <<48 + (n % 10)>>

\* str::cmp: lexicographic comparison by byte.
RECURSIVE str_cmp(_, _)
str_cmp(a, b) ==
    IF a = <<>> /\ b = <<>> THEN "Equal"
    ELSE IF a = <<>> THEN "Less"
    ELSE IF b = <<>> THEN "Greater"
    ELSE IF Head(a) < Head(b) THEN "Less"
    ELSE IF Head(a) > Head(b) THEN "Greater"
    ELSE str_cmp(Tail(a), Tail(b))

\* format!("{} {}", first_name, last_name)
full_name_of(first_name, last_name) == first_name \o <<32>> \o last_name

(***************************************************************************)
(* HashMap as a function with an explicit domain.                          *)
(***************************************************************************)
EmptyMap == [k \in {} |-> {}]

map_insert(m, k, v) == [x \in DOMAIN m \cup {k} |-> IF x = k THEN v ELSE m[x]]

\* Insert the (key, value) pairs of a sequence in order.
RECURSIVE insert_all(_, _)
insert_all(m, pairs) ==
    IF pairs = <<>> THEN m
    ELSE insert_all(map_insert(m, Head(pairs)[1], Head(pairs)[2]), Tail(pairs))

(***************************************************************************)
(* Team identity tables.                                                   *)
(***************************************************************************)
CURRENT_TEAM_CODES ==
    << "ANA", "BOS", "BUF", "CGY", "CAR", "CHI", "COL", "CBJ", "DAL", "DET",
       "EDM", "FLA", "LAK", "MIN", "MTL", "NSH", "NJD", "NYI", "NYR", "OTT",
       "PHI", "PIT", "SJS", "SEA", "STL", "TBL", "TOR", "UTA", "VAN", "VGK",
       "WSH", "WPG" >>

HISTORICAL_TEAM_CODES ==
    << "ATL", "HFD", "QUE", "MNS", "CLR", "KCS", "ATF", "WPG1", "PHX", "ARI",
       "MIG" >>

\* The mapping.insert(historical, current) calls, in source order.
Relocations_without_wpg1 ==
    << <<"ATL", "WPG">>, <<"HFD", "CAR">>, <<"QUE", "COL">>, <<"MNS", "DAL">>,
       <<"CLR", "NJD">>, <<"KCS", "NJD">>, <<"ATF", "CGY">>,
       <<"PHX", "UTA">>, <<"ARI", "UTA">>, <<"MIG", "ANA">> >>

Relocations ==
    << <<"ATL", "WPG">>, <<"HFD", "CAR">>, <<"QUE", "COL">>, <<"MNS", "DAL">>,
       <<"CLR", "NJD">>, <<"KCS", "NJD">>, <<"ATF", "CGY">>, <<"WPG1", "UTA">>,
       <<"PHX", "UTA">>, <<"ARI", "UTA">>, <<"MIG", "ANA">> >>

\* A relocation table that forgets the rename of the Mighty Ducks.
get_team_mapping_no_mig ==
    insert_all(
        insert_all(EmptyMap, SubSeq(Relocations, 1, Len(Relocations) - 1)),
        [i \in DOMAIN CURRENT_TEAM_CODES |->
            <<CURRENT_TEAM_CODES[i], CURRENT_TEAM_CODES[i]>>])

\* A relocation table that follows each move one step only: the Kansas City
\* Scouts became the Colorado Rockies, the original Winnipeg Jets the
\* Arizona Coyotes.
get_team_mapping_chained ==
    insert_all(
        insert_all(
            insert_all(EmptyMap, Relocations),
            << <<"KCS", "CLR">>, <<"WPG1", "ARI">> >>),
        [i \in DOMAIN CURRENT_TEAM_CODES |->
            <<CURRENT_TEAM_CODES[i], CURRENT_TEAM_CODES[i]>>])

\* get_team_mapping(): the relocations, then every current code to itself.
get_team_mapping ==
    insert_all(
        insert_all(EmptyMap, Relocations),
        [i \in DOMAIN CURRENT_TEAM_CODES |->
            <<CURRENT_TEAM_CODES[i], CURRENT_TEAM_CODES[i]>>])

\* get_all_team_codes(): current, then historical.
get_all_team_codes == CURRENT_TEAM_CODES \o HISTORICAL_TEAM_CODES

\* team_mapping.get(code): the Identity Resolver's canonicalize.
canonicalize(code) ==
    IF code \in DOMAIN get_team_mapping THEN Some(get_team_mapping[code]) ELSE None

\* lines 294-311: the (team full name, code) pairs, in source order.  The
\* source spells Montreal with an accented e.
team_codes_pairs ==
    << <<"Anaheim Ducks", "ANA">>, <<"Boston Bruins", "BOS">>, <<"Buffalo Sabres", "BUF">>,
       <<"Calgary Flames", "CGY">>, <<"Carolina Hurricanes", "CAR">>, <<"Chicago Blackhawks", "CHI">>,
       <<"Colorado Avalanche", "COL">>, <<"Columbus Blue Jackets", "CBJ">>, <<"Dallas Stars", "DAL">>,
       <<"Detroit Red Wings", "DET">>, <<"Edmonton Oilers", "EDM">>, <<"Florida Panthers", "FLA">>,
       <<"Los Angeles Kings", "LAK">>, <<"Minnesota Wild", "MIN">>, <<"Montreal Canadiens", "MTL">>,
       <<"Nashville Predators", "NSH">>, <<"New Jersey Devils", "NJD">>, <<"New York Islanders", "NYI">>,
       <<"New York Rangers", "NYR">>, <<"Ottawa Senators", "OTT">>, <<"Philadelphia Flyers", "PHI">>,
       <<"Pittsburgh Penguins", "PIT">>, <<"San Jose Sharks", "SJS">>, <<"Seattle Kraken", "SEA">>,
       <<"St. Louis Blues", "STL">>, <<"Tampa Bay Lightning", "TBL">>, <<"Toronto Maple Leafs", "TOR">>,
       <<"Utah Hockey Club", "UTA">>, <<"Vancouver Canucks", "VAN">>, <<"Vegas Golden Knights", "VGK">>,
       <<"Washington Capitals", "WSH">>, <<"Winnipeg Jets", "WPG">>,
       <<"Atlanta Thrashers", "ATL">>, <<"Hartford Whalers", "HFD">>, <<"Quebec Nordiques", "QUE">>,
       <<"Minnesota North Stars", "MNS">>, <<"Colorado Rockies", "CLR">>, <<"Kansas City Scouts", "KCS">>,
       <<"Atlanta Flames", "ATF">>, <<"Phoenix Coyotes", "PHX">>, <<"Arizona Coyotes", "ARI">>,
       <<"Mighty Ducks of Anaheim", "MIG">>, <<"Winnipeg Jets (1979)", "WPG1">> >>

\* The static team-full-name -> code lookup of the directory strategy:
\* .iter().cloned().collect()
team_codes == insert_all(EmptyMap, team_codes_pairs)

(***************************************************************************)
(* Inputs: the configuration and what the NHL API may answer.              *)
(***************************************************************************)
\* (--start-year, --end-year): a range of several seasons, a range of one
\* season, and a range whose start is after its end.
SeasonRanges == { <<2020, 2025>>, <<2015, 2015>>, <<2025, 2020>> }

Clis ==
    { [output |-> "nhl_players.json", delay |-> 100, start_year |-> r[1],
       end_year |-> r[2], include_games |-> g, use_player_search |-> u] :
      r \in SeasonRanges, g \in {FALSE}, u \in BOOLEAN }

\* playerId values the API serves.
PlayerIds == {1, 2}

\* "Jane", "John"; "Doe"
FirstNames == { <<74, 97, 110, 101>>, <<74, 111, 104, 110>> }
LastNames == { <<68, 111, 101>> }

BirthDates == {None}
BirthCities == {None}
BirthCountries == {None}
Positions == {None}

\* seasonTotals entries.  Seasons: 2015-16 is before the first range and is
\* the whole of the second, 2022-23 is inside the first and after the second.
\* Team names: a current franchise, a relocated one, a name the lookup does
\* not know, and no name.
SeasonCodes == {20152016, 20222023}
TeamNames ==
    { Some("Utah Hockey Club"), Some("Atlanta Thrashers"), Some("Team Canada"), None }

SeasonTotals == [season : SeasonCodes, team_name : TeamNames]

\* The fields of PlayerDetails the program reads.
PlayerDetailsValues ==
    [player_id : PlayerIds, first_name : FirstNames, last_name : LastNames,
     birth_date : BirthDates, birth_city : BirthCities,
     birth_country : BirthCountries, position : Positions,
     season_totals : {None} \cup {Some(t) : t \in SeqsUpTo(SeasonTotals, MaxTotals)}]

\* The directories the search API may return: players 1 to n, of each the
\* field of PlayerSearchResult the program reads.
PlayerDirectories ==
    { [i \in 1..n |-> [player_id |-> to_string(i)]] : n \in 0..MaxPlayers }

\* chrono::Utc::now().to_rfc3339()
Timestamps == {"2025-10-01T00:00:00+00:00", "2025-10-02T00:00:00+00:00"}

VARIABLES
    pc,                     \* where main is
    cli,                    \* the parsed command line
    players_iter,           \* what is left of `for player in &all_players`
    total_players,          \* all_players.len()
    consolidated_database,  \* HashMap<String, HashSet<PlayerInfo>>
    processed_count, players_with_teams, api_errors,
    details_result,         \* the result of fetch_player_details being matched
    output_file,            \* the file at cli.output: None until written
    \* one lookup in the team mapping, and one more of its result
    resolver_pc, resolver_code, resolver_first, resolver_second,
    \* fetch_team_schedule
    sched_pc,               \* "idle", "loop" or "returned"
    sched_team, sched_season,
    sched_env,              \* how the request of each url would end
    sched_urls,             \* what is left of `for url in urls`
    sched_requests,         \* the urls requested so far
    sched_result,           \* what fetch_team_schedule returned
    \* build_database_legacy and fetch_players_from_games
    legacy_pc,
    seasons, include_games, \* the parameters
    teams_iter,             \* what is left of all_team_codes, from the team in hand
    seasons_iter,           \* what is left of seasons, from the season in hand
    team_players, roster_players, game_players,
    legacy_database,        \* consolidated_database: HashMap<String, HashSet<String>>
    completed_requests,
    roster_result,          \* the result of fetch_roster being matched
    games_iter,             \* what is left of games_to_check
    season_game_players,    \* game_players of fetch_players_from_games
    game_result,            \* the result of fetch_game_details being matched
    schedule,               \* the schedule fetch_players_from_games got
    game_requests,          \* the ids of the games whose boxscore it requested
    \* the network
    last_event,             \* "none", then "request" or "sleep": what came last
    \* calculate_overlap_score (compute), one player against one team
    overlap_pc,
    player_obj,             \* the player of the request
    players_array,          \* the team's players in the database
    team_has_player, total_teams_played,
    overlap_player_info,    \* player_info: the database entry found
    \* generate_hint (compute)
    hint_pc,
    hint_teams, used_players, \* the parameters
    teams_obj,              \* player_data["teams"].as_object()
    hint_all_players, player_team_map,
    best_player, best_count,
    hint_result,            \* what generate_hint returned
    \* submit_daily_solution (compute): the KV store and the requests in flight
    kv_usage,               \* the value under daily_usage_{date}, if any
    kv_submissions,         \* user_id -> the value under daily_submission_{date}_{user_id}
    req_pc, req_user, req_players,
    req_usage,              \* usage_stats of each request
    req_result              \* what each request returned

mainVars ==
    <<pc, cli, players_iter, total_players, consolidated_database,
      processed_count, players_with_teams, api_errors, details_result,
      output_file>>

resolverVars == <<resolver_pc, resolver_code, resolver_first, resolver_second>>

schedVars ==
    <<sched_pc, sched_team, sched_season, sched_env, sched_urls,
      sched_requests, sched_result>>

legacyVars ==
    <<legacy_pc, seasons, include_games, teams_iter, seasons_iter,
      team_players, roster_players, game_players, legacy_database,
      completed_requests, roster_result, games_iter, season_game_players,
      game_result, schedule, game_requests>>

overlapVars ==
    <<overlap_pc, player_obj, players_array, team_has_player,
      total_teams_played, overlap_player_info>>

hintVars ==
    <<hint_pc, hint_teams, used_players, teams_obj, hint_all_players,
      player_team_map, best_player, best_count, hint_result>>
submitVars ==
    <<kv_usage, kv_submissions, req_pc, req_user, req_players, req_usage,
      req_result>>
vars ==
    <<mainVars, resolverVars, schedVars, legacyVars, last_event, overlapVars,
      hintVars, submitVars>>

(***************************************************************************)
(* The directory strategy: build_database_from_player_search.              *)
(***************************************************************************)
season_start_year(season) == season \div 10000

\* The range check with the first season of the range left out.
in_season_range_after_start(season, start_year, end_year) ==
    season_start_year(season) > start_year /\ season_start_year(season) <= end_year

\* The range check without its upper end.
in_season_range_no_end(season, start_year, end_year) ==
    season_start_year(season) >= start_year

\* line 364
in_season_range(season, start_year, end_year) ==
    season_start_year(season) >= start_year /\ season_start_year(season) <= end_year

birth_place_of_city_alone(details) ==
    IF details.birth_city.some /\ details.birth_country.some
        THEN Some(details.birth_city.val \o <<44, 32>> \o details.birth_country.val)
    ELSE IF ~details.birth_city.some /\ details.birth_country.some
        THEN Some(details.birth_country.val)
    ELSE details.birth_city

\* lines 345-349
birth_place_of(details) ==
    IF details.birth_city.some /\ details.birth_country.some
        THEN Some(details.birth_city.val \o <<44, 32>> \o details.birth_country.val)
    ELSE IF ~details.birth_city.some /\ details.birth_country.some
        THEN Some(details.birth_country.val)
    ELSE None

\* lines 351-357
player_info_of(details) ==
    [id |-> to_string(details.player_id),
     name |-> full_name_of(details.first_name, details.last_name),
     birth_date |-> details.birth_date,
     birth_place |-> birth_place_of(details),
     position |-> details.position]

\* lines 359-372: the codes of the in-range season totals whose team name
\* the lookup knows.
player_teams_of_unfiltered(details, start_year, end_year) ==
    IF ~details.season_totals.some THEN {}
    ELSE LET season_totals == details.season_totals.val IN
         { team_codes[season_totals[i].team_name.val] :
             i \in { j \in DOMAIN season_totals :
                       /\ season_totals[j].team_name.some
                       /\ season_totals[j].team_name.val \in DOMAIN team_codes } }

player_teams_of(details, start_year, end_year) ==
    IF ~details.season_totals.some THEN {}
    ELSE LET season_totals == details.season_totals.val IN
         { team_codes[season_totals[i].team_name.val] :
             i \in { j \in DOMAIN season_totals :
                       /\ in_season_range(season_totals[j].season, start_year, end_year)
                       /\ season_totals[j].team_name.some
                       /\ season_totals[j].team_name.val \in DOMAIN team_codes } }

\* lines 374-384: insert the player into the set of every mapped franchise.
add_player(database, player_teams, player_info) ==
    LET targets == { canonicalize(t).val :
                       t \in { c \in player_teams : canonicalize(c).some } }
    IN [team \in DOMAIN database |->
           IF team \in targets THEN database[team] \cup {player_info}
           ELSE database[team]]

\* lines 313-316
init_database ==
    [team \in Range(CURRENT_TEAM_CODES) |-> {}]

(***************************************************************************)
(* Consolidation of the sets into sorted lists (main, lines 680-688).      *)
(***************************************************************************)
\* The orders in which a HashSet may hand out its elements.
iter_orders(set) ==
    { v \in [1..Cardinality(set) -> set] : Range(v) = set }

\* Where a stable sort puts x in an already sorted list: before the first
\* element whose name is greater.
RECURSIVE insert_by_name(_, _)
insert_by_name(sorted, x) ==
    IF sorted = <<>> THEN <<x>>
    ELSE IF str_cmp(x.name, Head(sorted).name) = "Less" THEN <<x>> \o sorted
    ELSE <<Head(sorted)>> \o insert_by_name(Tail(sorted), x)

RECURSIVE sort_from(_, _)
sort_from(sorted, rest) ==
    IF rest = <<>> THEN sorted
    ELSE sort_from(insert_by_name(sorted, Head(rest)), Tail(rest))

\* The list left in the order the set handed it out.
sort_by_name_forgotten(player_list) == player_list

\* player_list.sort_by(|a, b| a.name.cmp(&b.name))
sort_by_name(player_list) == sort_from(<<>>, player_list)

\* players.into_iter().collect() and the sort: one list per iteration order.
player_lists(players) == { sort_by_name(v) : v \in iter_orders(players) }

\* The maps main may build from the database: each franchise's set as one
\* of its sorted lists.
teams_of(database) ==
    LET several == { t \in DOMAIN database : Cardinality(player_lists(database[t])) > 1 }
        picks == { g \in [several -> UNION { player_lists(database[t]) : t \in several }] :
                     \A t \in several : g[t] \in player_lists(database[t]) }
    IN { [t \in DOMAIN database |->
            IF t \in several THEN g[t]
            ELSE CHOOSE l \in player_lists(database[t]) : TRUE] : g \in picks }

RECURSIVE seasons_of_exclusive_end(_, _)
seasons_of_exclusive_end(start_year, end_year) ==
    IF start_year >= end_year THEN <<>>
    ELSE <<to_string(start_year) \o to_string(start_year + 1)>>
         \o seasons_of_exclusive_end(start_year + 1, end_year)

\* (cli.start_year..=cli.end_year).map(|year| format!("{}{}", year, year + 1))
RECURSIVE seasons_of(_, _)
seasons_of(start_year, end_year) ==
    IF start_year > end_year THEN <<>>
    ELSE <<to_string(start_year) \o to_string(start_year + 1)>>
         \o seasons_of(start_year + 1, end_year)

(***************************************************************************)
(* main in directory mode.                                                 *)
(***************************************************************************)
MainInit ==
    /\ pc = "main"
    /\ cli \in Clis
    /\ players_iter = <<>>
    /\ total_players = 0
    /\ consolidated_database = EmptyMap
    /\ processed_count = 0
    /\ players_with_teams = 0
    /\ api_errors = 0
    /\ details_result = None
    /\ output_file = None

\* lines 664-673: the strategy toggle.  The legacy branch exits the process.
SelectStrategy ==
    /\ pc = "main"
    /\ pc' = IF cli.use_player_search THEN "fetch_all_players" ELSE "exit_1"
    /\ UNCHANGED <<cli, players_iter, total_players, consolidated_database,
                   processed_count, players_with_teams, api_errors,
                   details_result, output_file>>
    /\ UNCHANGED <<resolverVars, schedVars, legacyVars>>
    /\ UNCHANGED last_event
    /\ UNCHANGED <<overlapVars, hintVars, submitVars>>

\* line 290, lines 246-264: the one-shot directory fetch fails and the `?`
\* returns the error from build_database_from_player_search and from main.
FetchAllPlayersErr ==
    /\ pc = "fetch_all_players"
    /\ \E e \in FetchErrors :
          /\ pc' = "exit_err"
          /\ UNCHANGED <<cli, players_iter, total_players, consolidated_database,
                         processed_count, players_with_teams, api_errors,
                         details_result, output_file>>
    /\ UNCHANGED <<resolverVars, schedVars, legacyVars>>
    /\ last_event' = "request"
    /\ UNCHANGED <<overlapVars, hintVars, submitVars>>

\* lines 290-324: the directory arrives; one empty set per current franchise.
FetchAllPlayersOk ==
    /\ pc = "fetch_all_players"
    /\ \E all_players \in PlayerDirectories :
          /\ players_iter' = all_players
          /\ total_players' = Len(all_players)
    /\ consolidated_database' = init_database
    /\ processed_count' = 0
    /\ players_with_teams' = 0
    /\ api_errors' = 0
    /\ pc' = "player_loop"
    /\ UNCHANGED <<cli, details_result, output_file>>
    /\ UNCHANGED <<resolverVars, schedVars, legacyVars>>
    /\ last_event' = "request"
    /\ UNCHANGED <<overlapVars, hintVars, submitVars>>

\* lines 326-338: the next player: sleep, count, request the landing page.
NextPlayer ==
    /\ pc = "player_loop"
    /\ players_iter # <<>>
    /\ processed_count' = processed_count + 1
    /\ pc' = "fetch_player_details"
    /\ UNCHANGED <<cli, players_iter, total_players, consolidated_database,
                   players_with_teams, api_errors, details_result, output_file>>
    /\ UNCHANGED <<resolverVars, schedVars, legacyVars>>
    /\ last_event' = "sleep"
    /\ UNCHANGED <<overlapVars, hintVars, submitVars>>

\* lines 266-282: the request ends in an error or in a parsed PlayerDetails.
FetchPlayerDetails ==
    /\ pc = "fetch_player_details"
    /\ \E result \in {Err(e) : e \in FetchErrors} \cup {Ok(d) : d \in PlayerDetailsValues} :
          details_result' = Some(result)
    /\ pc' = "match_details"
    /\ UNCHANGED <<cli, players_iter, total_players, consolidated_database,
                   processed_count, players_with_teams, api_errors, output_file>>
    /\ UNCHANGED <<resolverVars, schedVars, legacyVars>>
    /\ last_event' = "request"
    /\ UNCHANGED <<overlapVars, hintVars, submitVars>>

\* lines 339-385: Ok(details).
MatchDetailsOk ==
    /\ pc = "match_details"
    /\ details_result.val.ok
    /\ LET details == details_result.val.val
           player_info == player_info_of(details)
           player_teams == player_teams_of(details, cli.start_year, cli.end_year)
       IN IF player_teams # {}
          THEN /\ players_with_teams' = players_with_teams + 1
               /\ consolidated_database' =
                      add_player(consolidated_database, player_teams, player_info)
          ELSE UNCHANGED <<players_with_teams, consolidated_database>>
    /\ players_iter' = Tail(players_iter)
    /\ details_result' = None
    /\ pc' = "player_loop"
    /\ UNCHANGED <<cli, total_players, processed_count, api_errors, output_file>>
    /\ UNCHANGED <<resolverVars, schedVars, legacyVars>>
    /\ UNCHANGED last_event
    /\ UNCHANGED <<overlapVars, hintVars, submitVars>>

\* The failure of one fetch counted, and the loop left.
MatchDetailsErr_break ==
    /\ pc = "match_details"
    /\ ~details_result.val.ok
    /\ api_errors' = api_errors + 1
    /\ players_iter' = <<>>
    /\ details_result' = None
    /\ pc' = "player_loop"
    /\ UNCHANGED <<cli, total_players, consolidated_database, processed_count,
                   players_with_teams, output_file>>
    /\ UNCHANGED <<resolverVars, schedVars, legacyVars, last_event>>
    /\ UNCHANGED <<overlapVars, hintVars, submitVars>>

\* lines 386-389: Err(e).
MatchDetailsErr ==
    /\ pc = "match_details"
    /\ ~details_result.val.ok
    /\ api_errors' = api_errors + 1
    /\ players_iter' = Tail(players_iter)
    /\ details_result' = None
    /\ pc' = "player_loop"
    /\ UNCHANGED <<cli, total_players, consolidated_database, processed_count,
                   players_with_teams, output_file>>
    /\ UNCHANGED <<resolverVars, schedVars, legacyVars>>
    /\ UNCHANGED last_event
    /\ UNCHANGED <<overlapVars, hintVars, submitVars>>

\* The database saved each time the loop comes round, not only at its end.
WriteDatabase_each_player ==
    /\ pc = "player_loop"
    /\ \E teams \in teams_of(consolidated_database), generated_at \in Timestamps :
          output_file' = Some([teams |-> teams,
                               generated_at |-> generated_at,
                               seasons_covered |-> seasons_of(cli.start_year, cli.end_year)])
    /\ pc' = IF players_iter = <<>> THEN "exit_ok" ELSE pc
    /\ UNCHANGED <<cli, players_iter, total_players, consolidated_database,
                   processed_count, players_with_teams, api_errors, details_result>>
    /\ UNCHANGED <<resolverVars, schedVars, legacyVars, last_event>>
    /\ UNCHANGED <<overlapVars, hintVars, submitVars>>

\* lines 393-397 and 675-721: the loop is over; main sorts each set into a
\* list, builds the PlayerDatabase and writes it.
WriteDatabase ==
    /\ pc = "player_loop"
    /\ players_iter = <<>>
    /\ \E teams \in teams_of(consolidated_database), generated_at \in Timestamps :
          output_file' = Some([teams |-> teams,
                               generated_at |-> generated_at,
                               seasons_covered |-> seasons_of(cli.start_year, cli.end_year)])
    /\ pc' = "exit_ok"
    /\ UNCHANGED <<cli, players_iter, total_players, consolidated_database,
                   processed_count, players_with_teams, api_errors, details_result>>
    /\ UNCHANGED <<resolverVars, schedVars, legacyVars>>
    /\ UNCHANGED last_event
    /\ UNCHANGED <<overlapVars, hintVars, submitVars>>

\* line 716: fs::write fails to create the file and the `?` returns the
\* error from main.
WriteDatabaseErr ==
    /\ pc = "player_loop"
    /\ players_iter = <<>>
    /\ pc' = "exit_write_err"
    /\ UNCHANGED <<cli, players_iter, total_players, consolidated_database,
                   processed_count, players_with_teams, api_errors,
                   details_result, output_file>>
    /\ UNCHANGED <<resolverVars, schedVars, legacyVars, last_event>>
    /\ UNCHANGED <<overlapVars, hintVars, submitVars>>

MainNext ==
    \/ SelectStrategy
    \/ FetchAllPlayersErr
    \/ FetchAllPlayersOk
    \/ NextPlayer
    \/ FetchPlayerDetails
    \/ MatchDetailsOk
    \/ MatchDetailsErr
    \/ WriteDatabase
    \/ WriteDatabaseErr

MainIdle ==
    /\ pc = "idle"
    /\ cli = None
    /\ players_iter = <<>>
    /\ total_players = 0
    /\ consolidated_database = EmptyMap
    /\ processed_count = 0
    /\ players_with_teams = 0
    /\ api_errors = 0
    /\ details_result = None
    /\ output_file = None

(***************************************************************************)
(* The Team Identity Resolver on its own: team_mapping.get(code), and the  *)
(* same lookup of the code it returned.                                    *)
(***************************************************************************)
\* Codes that are no team's.
UnknownCodes == {"XXX", "atl", "WPG2"}

ResolverInit ==
    /\ resolver_pc = "code"
    /\ resolver_code \in Range(get_all_team_codes) \cup UnknownCodes
    /\ resolver_first = None
    /\ resolver_second = None

ResolverIdle ==
    /\ resolver_pc = "idle"
    /\ resolver_code = ""
    /\ resolver_first = None
    /\ resolver_second = None

\* lines 378 and 477: team_mapping.get(team_code)
Canonicalize ==
    /\ resolver_pc = "code"
    /\ resolver_first' = canonicalize(resolver_code)
    /\ resolver_pc' = "once"
    /\ UNCHANGED <<resolver_code, resolver_second>>
    /\ UNCHANGED <<mainVars, schedVars, legacyVars>>
    /\ UNCHANGED last_event
    /\ UNCHANGED <<overlapVars, hintVars, submitVars>>

\* the same lookup of the current code found
CanonicalizeAgain ==
    /\ resolver_pc = "once"
    /\ resolver_first.some
    /\ resolver_second' = canonicalize(resolver_first.val)
    /\ resolver_pc' = "twice"
    /\ UNCHANGED <<resolver_code, resolver_first>>
    /\ UNCHANGED <<mainVars, schedVars, legacyVars>>
    /\ UNCHANGED last_event
    /\ UNCHANGED <<overlapVars, hintVars, submitVars>>

ResolverNext ==
    \/ Canonicalize
    \/ CanonicalizeAgain

(***************************************************************************)
(* The Schedule Fetcher: fetch_team_schedule.                              *)
(***************************************************************************)
\* A request ends in a transport error, a status that is not 2xx, a body
\* that does not parse, or a parsed value.
outcomes(values) == {Err(e) : e \in FetchErrors} \cup {Ok(v) : v \in values}

game(id, away, home) ==
    [id |-> id, away_team |-> [abbrev |-> away], home_team |-> [abbrev |-> home]]

\* A schedule of eleven games: one of two other teams, then ten away games
\* of the team.
long_schedule(team_code) ==
    [games |-> [i \in 1..11 |->
        IF i = 1 THEN game(10 + i, "BOS", "NYR") ELSE game(10 + i, team_code, "BOS")]]

\* Schedules the API may serve for a team: no games, one away game, a game
\* of two other teams followed by a home game, and the schedule of eleven
\* games.
Schedules(team_code) ==
    { [games |-> <<>>],
      [games |-> <<game(1, team_code, "BOS")>>],
      [games |-> <<game(2, "BOS", "NYR"), game(3, "BOS", team_code)>>],
      long_schedule(team_code) }

\* lines 522-526: the three url formats, in the order they are tried.
schedule_urls(team_code, season) ==
    << [url |-> "https://api-web.nhle.com/v1/club-schedule-season/{}/{}",
        team_code |-> team_code, season |-> season],
       [url |-> "https://api-web.nhle.com/v1/schedule/{}/{}",
        team_code |-> team_code, season |-> season],
       [url |-> "https://statsapi.web.nhl.com/api/v1/teams/{}/schedule?season={}",
        team_code |-> team_code, season |-> season] >>

\* One url handled as the code would with `?` on the body's parse as well.
after_request_parse_fatal(outcome) ==
    IF outcome.ok THEN "return_ok" ELSE
    IF outcome.err = HttpStatusError THEN "next_url" ELSE "return_err"

\* lines 529-540: what the loop does with the outcome of one request:
\* send().await? returns a transport error; a 2xx body that parses is
\* returned; a 2xx body that does not parse and any other status go on to
\* the next url.
after_request(outcome) ==
    IF outcome.ok THEN "return_ok" ELSE
    IF outcome.err = TransportError THEN "return_err" ELSE "next_url"

SchedIdle ==
    /\ sched_pc = "idle"
    /\ sched_team = ""
    /\ sched_season = <<>>
    /\ sched_env = <<>>
    /\ sched_urls = <<>>
    /\ sched_requests = <<>>
    /\ sched_result = None

\* fetch_team_schedule(client, team_code, season) is entered while the API
\* would answer its urls as env does.
sched_called(team_code, season, env) ==
    /\ sched_pc' = "loop"
    /\ sched_team' = team_code
    /\ sched_season' = season
    /\ sched_env' = env
    /\ sched_urls' = schedule_urls(team_code, season)
    /\ sched_requests' = <<>>
    /\ sched_result' = None

\* fetch_team_schedule has returned to its caller, its locals are dropped.
sched_dropped ==
    /\ sched_pc' = "idle"
    /\ sched_team' = ""
    /\ sched_season' = <<>>
    /\ sched_env' = <<>>
    /\ sched_urls' = <<>>
    /\ sched_requests' = <<>>
    /\ sched_result' = None

SchedInit ==
    /\ sched_pc = "loop"
    /\ sched_team \in {"ATL"}
    /\ sched_season \in {to_string(2022) \o to_string(2023)}
    /\ sched_env \in [1..3 -> outcomes(Schedules(sched_team))]
    /\ sched_urls = schedule_urls(sched_team, sched_season)
    /\ sched_requests = <<>>
    /\ sched_result = None

\* The outcome of the request of the next url.
next_outcome == sched_env[Len(sched_requests) + 1]

\* lines 529-533: the request fails in transport and `?` returns the error.
ScheduleTransportError ==
    /\ sched_pc = "loop"
    /\ sched_urls # <<>>
    /\ after_request(next_outcome) = "return_err"
    /\ sched_requests' = Append(sched_requests, Head(sched_urls))
    /\ sched_result' = Some(Err(next_outcome.err))
    /\ sched_pc' = "returned"
    /\ UNCHANGED <<sched_team, sched_season, sched_env, sched_urls>>
    /\ UNCHANGED <<mainVars, resolverVars, legacyVars>>
    /\ last_event' = "request"
    /\ UNCHANGED <<overlapVars, hintVars, submitVars>>

\* lines 535-540: not a success status, or a body that does not parse.
ScheduleNextUrl ==
    /\ sched_pc = "loop"
    /\ sched_urls # <<>>
    /\ after_request(next_outcome) = "next_url"
    /\ sched_requests' = Append(sched_requests, Head(sched_urls))
    /\ sched_urls' = Tail(sched_urls)
    /\ UNCHANGED <<sched_pc, sched_team, sched_season, sched_env, sched_result>>
    /\ UNCHANGED <<mainVars, resolverVars, legacyVars>>
    /\ last_event' = "request"
    /\ UNCHANGED <<overlapVars, hintVars, submitVars>>

\* lines 535-537: a success status and a body that parses.
ScheduleAccepted ==
    /\ sched_pc = "loop"
    /\ sched_urls # <<>>
    /\ after_request(next_outcome) = "return_ok"
    /\ sched_requests' = Append(sched_requests, Head(sched_urls))
    /\ sched_result' = Some(Ok(next_outcome.val))
    /\ sched_pc' = "returned"
    /\ UNCHANGED <<sched_team, sched_season, sched_env, sched_urls>>
    /\ UNCHANGED <<mainVars, resolverVars, legacyVars>>
    /\ last_event' = "request"
    /\ UNCHANGED <<overlapVars, hintVars, submitVars>>

\* line 543: no url is left.
ScheduleAllFailed ==
    /\ sched_pc = "loop"
    /\ sched_urls = <<>>
    /\ sched_result' = Some(Err("All schedule API endpoints failed"))
    /\ sched_pc' = "returned"
    /\ UNCHANGED <<sched_team, sched_season, sched_env, sched_urls, sched_requests>>
    /\ UNCHANGED <<mainVars, resolverVars, legacyVars>>
    /\ UNCHANGED last_event
    /\ UNCHANGED <<overlapVars, hintVars, submitVars>>

ScheduleNext ==
    \/ ScheduleTransportError
    \/ ScheduleNextUrl
    \/ ScheduleAccepted
    \/ ScheduleAllFailed

(***************************************************************************)
(* The legacy strategy: build_database_legacy, fetch_players_from_games.   *)
(***************************************************************************)
\* Teams the API has rosters for, and teams it has schedules for; every
\* other request of a roster or a schedule fails.
RosterTeams == {"WPG", "ATL"}
ScheduleTeams == {"ATL"}

\* "John Doe", "Jane Doe" on rosters; "John Doe", "Sam Roe" in boxscores.
JohnDoe == [first_name |-> <<74, 111, 104, 110>>, last_name |-> <<68, 111, 101>>]
JaneDoe == [first_name |-> <<74, 97, 110, 101>>, last_name |-> <<68, 111, 101>>]
SamRoe == [first_name |-> <<83, 97, 109>>, last_name |-> <<82, 111, 101>>]
RosterNames == {JohnDoe, JaneDoe}
GameNames == {JohnDoe, SamRoe}

RosterDatas ==
    [forwards : {None} \cup {Some(v) : v \in SeqsUpTo(RosterNames, 1)},
     defensemen : {None} \cup {Some(v) : v \in SeqsUpTo(RosterNames, 1)},
     goalies : {None, Some(<<>>)}]

TeamDetailsValues ==
    {[skaters |-> Some(<<p>>), goalies |-> None] : p \in GameNames}
    \cup {[skaters |-> None, goalies |-> Some(<<p>>)] : p \in GameNames}

GameDetailsValues ==
    [away_team : {None} \cup {Some(t) : t \in TeamDetailsValues},
     home_team : {None} \cup {Some(t) : t \in TeamDetailsValues}]

\* What the requests the legacy strategy makes for a team may end in.
roster_outcomes(team_code) ==
    outcomes(IF team_code \in RosterTeams THEN RosterDatas ELSE {})
schedule_envs(team_code) ==
    [1..3 -> outcomes(IF team_code \in ScheduleTeams THEN Schedules(team_code) ELSE {})]

\* The lists of seasons: none, 2022-23, 2022-23 and 2023-24, ...
SeasonLists == { seasons_of(2022, 2021 + n) : n \in 0..MaxSeasons }

\* Option<Vec<_>> as the names it holds: format!("{} {}", first, last).
names_of(list) ==
    IF list.some
    THEN { full_name_of(list.val[i].first_name, list.val[i].last_name) : i \in DOMAIN list.val }
    ELSE {}

\* lines 626-648: extract_players, as the set of the names pushed.
extract_players(roster_data) ==
    names_of(roster_data.forwards) \cup names_of(roster_data.defensemen)
        \cup names_of(roster_data.goalies)

\* line 577: schedule.games.iter().take(10)
GamesLimit == 10

\* Every game of the schedule looked at.
take_all(list, n) == list

take(list, n) == SubSeq(list, 1, IF Len(list) < n THEN Len(list) ELSE n)

\* The check of the away side alone.
participates_away_only(a_game, team_code) ==
    a_game.away_team.abbrev = team_code

\* line 581
participates(a_game, team_code) ==
    a_game.away_team.abbrev = team_code \/ a_game.home_team.abbrev = team_code

\* lines 587-609: the names of the side of the team in a boxscore.
game_names(a_game, game_details, team_code) ==
    LET team_details == IF a_game.away_team.abbrev = team_code
                        THEN game_details.away_team
                        ELSE game_details.home_team
    IN IF team_details.some
       THEN names_of(team_details.val.skaters) \cup names_of(team_details.val.goalies)
       ELSE {}

\* The bucket of a team put under the team's own code.
fold_team_raw(database, team_code, players) ==
    map_insert(database, team_code,
        (IF team_code \in DOMAIN database THEN database[team_code] ELSE {}) \cup players)

\* lines 476-482: the bucket of a team unioned into its current franchise.
fold_team(database, team_code, players) ==
    IF canonicalize(team_code).some /\ canonicalize(team_code).val \in DOMAIN database
    THEN [database EXCEPT ![canonicalize(team_code).val] = @ \cup players]
    ELSE database

LegacyIdle ==
    /\ legacy_pc = "idle"
    /\ seasons = <<>>
    /\ include_games = FALSE
    /\ teams_iter = <<>>
    /\ seasons_iter = <<>>
    /\ team_players = {}
    /\ roster_players = {}
    /\ game_players = {}
    /\ legacy_database = EmptyMap
    /\ completed_requests = 0
    /\ roster_result = None
    /\ games_iter = <<>>
    /\ season_game_players = {}
    /\ game_result = None
    /\ schedule = None
    /\ game_requests = <<>>

\* lines 400-416
LegacyInit ==
    /\ legacy_pc = "team_loop"
    /\ seasons \in SeasonLists
    /\ include_games \in BOOLEAN
    /\ teams_iter = get_all_team_codes
    /\ seasons_iter = <<>>
    /\ team_players = {}
    /\ roster_players = {}
    /\ game_players = {}
    /\ legacy_database = init_database
    /\ completed_requests = 0
    /\ roster_result = None
    /\ games_iter = <<>>
    /\ season_game_players = {}
    /\ game_result = None
    /\ schedule = None
    /\ game_requests = <<>>

\* lines 418-421: the next team starts with empty sets.
NextTeam ==
    /\ legacy_pc = "team_loop"
    /\ teams_iter # <<>>
    /\ team_players' = {}
    /\ roster_players' = {}
    /\ game_players' = {}
    /\ seasons_iter' = seasons
    /\ legacy_pc' = "season_loop"
    /\ UNCHANGED <<seasons, include_games, teams_iter, legacy_database,
                   completed_requests, roster_result, games_iter,
                   season_game_players, game_result>>
    /\ UNCHANGED <<mainVars, resolverVars, schedVars>>
    /\ UNCHANGED last_event
    /\ UNCHANGED <<schedule, game_requests>>
    /\ UNCHANGED <<overlapVars, hintVars, submitVars>>

\* lines 423-425 and 503-518: the roster of the team and season is requested.
FetchRoster ==
    /\ legacy_pc = "season_loop"
    /\ seasons_iter # <<>>
    /\ \E result \in roster_outcomes(Head(teams_iter)) :
          roster_result' = Some(result)
    /\ legacy_pc' = "match_roster"
    /\ UNCHANGED <<seasons, include_games, teams_iter, seasons_iter,
                   team_players, roster_players, game_players, legacy_database,
                   completed_requests, games_iter, season_game_players, game_result>>
    /\ UNCHANGED <<mainVars, resolverVars, schedVars>>
    /\ last_event' = "request"
    /\ UNCHANGED <<schedule, game_requests>>
    /\ UNCHANGED <<overlapVars, hintVars, submitVars>>

\* lines 426-435
MatchRosterOk ==
    /\ legacy_pc = "match_roster"
    /\ roster_result.val.ok
    /\ roster_players' = roster_players \cup extract_players(roster_result.val.val)
    /\ team_players' = team_players \cup extract_players(roster_result.val.val)
    /\ roster_result' = None
    /\ legacy_pc' = "after_roster"
    /\ UNCHANGED <<seasons, include_games, teams_iter, seasons_iter,
                   game_players, legacy_database, completed_requests,
                   games_iter, season_game_players, game_result>>
    /\ UNCHANGED <<mainVars, resolverVars, schedVars>>
    /\ UNCHANGED last_event
    /\ UNCHANGED <<schedule, game_requests>>
    /\ UNCHANGED <<overlapVars, hintVars, submitVars>>

\* The failure of a roster request ending the seasons of the team.
MatchRosterErr_break ==
    /\ legacy_pc = "match_roster"
    /\ ~roster_result.val.ok
    /\ roster_result' = None
    /\ seasons_iter' = <<>>
    /\ legacy_pc' = "season_loop"
    /\ UNCHANGED <<seasons, include_games, teams_iter,
                   team_players, roster_players, game_players, legacy_database,
                   completed_requests, games_iter, season_game_players, game_result>>
    /\ UNCHANGED <<mainVars, resolverVars, schedVars>>
    /\ UNCHANGED last_event
    /\ UNCHANGED <<schedule, game_requests>>
    /\ UNCHANGED <<overlapVars, hintVars, submitVars>>

\* lines 436-438
MatchRosterErr ==
    /\ legacy_pc = "match_roster"
    /\ ~roster_result.val.ok
    /\ roster_result' = None
    /\ legacy_pc' = "after_roster"
    /\ UNCHANGED <<seasons, include_games, teams_iter, seasons_iter,
                   team_players, roster_players, game_players, legacy_database,
                   completed_requests, games_iter, season_game_players, game_result>>
    /\ UNCHANGED <<mainVars, resolverVars, schedVars>>
    /\ UNCHANGED last_event
    /\ UNCHANGED <<schedule, game_requests>>
    /\ UNCHANGED <<overlapVars, hintVars, submitVars>>

\* line 442, include_games false: no game data.
SkipGames ==
    /\ legacy_pc = "after_roster"
    /\ ~include_games
    /\ legacy_pc' = "season_end"
    /\ UNCHANGED <<seasons, include_games, teams_iter, seasons_iter,
                   team_players, roster_players, game_players, legacy_database,
                   completed_requests, roster_result, games_iter,
                   season_game_players, game_result>>
    /\ UNCHANGED <<mainVars, resolverVars, schedVars>>
    /\ UNCHANGED last_event
    /\ UNCHANGED <<schedule, game_requests>>
    /\ UNCHANGED <<overlapVars, hintVars, submitVars>>

\* lines 442-443 and 569-572: fetch_players_from_games starts with an empty
\* set and calls fetch_team_schedule.
FetchPlayersFromGames ==
    /\ legacy_pc = "after_roster"
    /\ include_games
    /\ season_game_players' = {}
    /\ \E env \in schedule_envs(Head(teams_iter)) :
          sched_called(Head(teams_iter), Head(seasons_iter), env)
    /\ legacy_pc' = "fetch_team_schedule"
    /\ UNCHANGED <<seasons, include_games, teams_iter, seasons_iter,
                   team_players, roster_players, game_players, legacy_database,
                   completed_requests, roster_result, games_iter, game_result>>
    /\ UNCHANGED <<mainVars, resolverVars>>
    /\ UNCHANGED last_event
    /\ schedule' = None
    /\ game_requests' = <<>>
    /\ UNCHANGED <<overlapVars, hintVars, submitVars>>

\* lines 573-577: Ok(schedule): at most the first 10 games are looked at.
ScheduleOk ==
    /\ legacy_pc = "fetch_team_schedule"
    /\ sched_pc = "returned"
    /\ sched_result.val.ok
    /\ games_iter' = take(sched_result.val.val.games, GamesLimit)
    /\ legacy_pc' = "games_loop"
    /\ sched_dropped
    /\ UNCHANGED <<seasons, include_games, teams_iter, seasons_iter,
                   team_players, roster_players, game_players, legacy_database,
                   completed_requests, roster_result, season_game_players,
                   game_result>>
    /\ UNCHANGED <<mainVars, resolverVars>>
    /\ UNCHANGED last_event
    /\ schedule' = Some(sched_result.val.val)
    /\ UNCHANGED game_requests
    /\ UNCHANGED <<overlapVars, hintVars, submitVars>>

\* lines 618-620: Err(e): logged, the empty set is returned.
ScheduleErr ==
    /\ legacy_pc = "fetch_team_schedule"
    /\ sched_pc = "returned"
    /\ ~sched_result.val.ok
    /\ legacy_pc' = "games_returned"
    /\ sched_dropped
    /\ UNCHANGED <<seasons, include_games, teams_iter, seasons_iter,
                   team_players, roster_players, game_players, legacy_database,
                   completed_requests, roster_result, games_iter,
                   season_game_players, game_result>>
    /\ UNCHANGED <<mainVars, resolverVars>>
    /\ UNCHANGED last_event
    /\ UNCHANGED <<schedule, game_requests>>
    /\ UNCHANGED <<overlapVars, hintVars, submitVars>>

\* lines 579-581: a game the team did not play in is passed over.
SkipGame ==
    /\ legacy_pc = "games_loop"
    /\ games_iter # <<>>
    /\ ~participates(Head(games_iter), Head(teams_iter))
    /\ games_iter' = Tail(games_iter)
    /\ UNCHANGED <<legacy_pc, seasons, include_games, teams_iter, seasons_iter,
                   team_players, roster_players, game_players, legacy_database,
                   completed_requests, roster_result, season_game_players,
                   game_result>>
    /\ UNCHANGED <<mainVars, resolverVars, schedVars>>
    /\ UNCHANGED last_event
    /\ UNCHANGED <<schedule, game_requests>>
    /\ UNCHANGED <<overlapVars, hintVars, submitVars>>

\* lines 581-582: the team played in the game: sleep before the request.
SleepBeforeGame ==
    /\ legacy_pc = "games_loop"
    /\ games_iter # <<>>
    /\ participates(Head(games_iter), Head(teams_iter))
    /\ last_event' = "sleep"
    /\ legacy_pc' = "fetch_game_details"
    /\ UNCHANGED <<seasons, include_games, teams_iter, seasons_iter,
                   team_players, roster_players, game_players, legacy_database,
                   completed_requests, roster_result, games_iter,
                   season_game_players, game_result, schedule, game_requests>>
    /\ UNCHANGED <<mainVars, resolverVars, schedVars>>
    /\ UNCHANGED <<overlapVars, hintVars, submitVars>>

\* lines 584 and 546-561: the boxscore of the game is requested.
FetchGameDetails ==
    /\ legacy_pc = "fetch_game_details"
    /\ \E result \in outcomes(GameDetailsValues) :
          game_result' = Some(result)
    /\ legacy_pc' = "match_game"
    /\ UNCHANGED <<seasons, include_games, teams_iter, seasons_iter,
                   team_players, roster_players, game_players, legacy_database,
                   completed_requests, roster_result, games_iter,
                   season_game_players>>
    /\ UNCHANGED <<mainVars, resolverVars, schedVars>>
    /\ last_event' = "request"
    /\ game_requests' = Append(game_requests, Head(games_iter).id)
    /\ UNCHANGED schedule
    /\ UNCHANGED <<overlapVars, hintVars, submitVars>>

\* lines 585-610
MatchGameOk ==
    /\ legacy_pc = "match_game"
    /\ game_result.val.ok
    /\ season_game_players' =
          season_game_players
              \cup game_names(Head(games_iter), game_result.val.val, Head(teams_iter))
    /\ games_iter' = Tail(games_iter)
    /\ game_result' = None
    /\ legacy_pc' = "games_loop"
    /\ UNCHANGED <<seasons, include_games, teams_iter, seasons_iter,
                   team_players, roster_players, game_players, legacy_database,
                   completed_requests, roster_result>>
    /\ UNCHANGED <<mainVars, resolverVars, schedVars>>
    /\ UNCHANGED last_event
    /\ UNCHANGED <<schedule, game_requests>>
    /\ UNCHANGED <<overlapVars, hintVars, submitVars>>

\* lines 611-613
MatchGameErr ==
    /\ legacy_pc = "match_game"
    /\ ~game_result.val.ok
    /\ games_iter' = Tail(games_iter)
    /\ game_result' = None
    /\ legacy_pc' = "games_loop"
    /\ UNCHANGED <<seasons, include_games, teams_iter, seasons_iter,
                   team_players, roster_players, game_players, legacy_database,
                   completed_requests, roster_result, season_game_players>>
    /\ UNCHANGED <<mainVars, resolverVars, schedVars>>
    /\ UNCHANGED last_event
    /\ UNCHANGED <<schedule, game_requests>>
    /\ UNCHANGED <<overlapVars, hintVars, submitVars>>

\* line 623: the games are done, Ok(game_players) is returned.
GamesDone ==
    /\ legacy_pc = "games_loop"
    /\ games_iter = <<>>
    /\ legacy_pc' = "games_returned"
    /\ UNCHANGED <<seasons, include_games, teams_iter, seasons_iter,
                   team_players, roster_players, game_players, legacy_database,
                   completed_requests, roster_result, games_iter,
                   season_game_players, game_result>>
    /\ UNCHANGED <<mainVars, resolverVars, schedVars>>
    /\ UNCHANGED last_event
    /\ schedule' = None
    /\ game_requests' = <<>>
    /\ UNCHANGED <<overlapVars, hintVars, submitVars>>

\* lines 444-456: the players of the games that are not on the roster; the
\* for loop consumes season_game_players.
\* fetch_players_from_games returns no Err, the arm of lines 457-459 is dead.
MatchGamePlayers ==
    /\ legacy_pc = "games_returned"
    /\ game_players' = game_players \cup (season_game_players \ roster_players)
    /\ team_players' = team_players \cup (season_game_players \ roster_players)
    /\ season_game_players' = {}
    /\ legacy_pc' = "season_end"
    /\ UNCHANGED <<seasons, include_games, teams_iter, seasons_iter,
                   roster_players, legacy_database, completed_requests,
                   roster_result, games_iter, game_result>>
    /\ UNCHANGED <<mainVars, resolverVars, schedVars>>
    /\ UNCHANGED last_event
    /\ UNCHANGED <<schedule, game_requests>>
    /\ UNCHANGED <<overlapVars, hintVars, submitVars>>

\* lines 463-473: count the season, sleep.
SeasonEnd ==
    /\ legacy_pc = "season_end"
    /\ completed_requests' = completed_requests + 1
    /\ seasons_iter' = Tail(seasons_iter)
    /\ legacy_pc' = "season_loop"
    /\ UNCHANGED <<seasons, include_games, teams_iter, team_players,
                   roster_players, game_players, legacy_database, roster_result,
                   games_iter, season_game_players, game_result>>
    /\ UNCHANGED <<mainVars, resolverVars, schedVars>>
    /\ last_event' = "sleep"
    /\ UNCHANGED <<schedule, game_requests>>
    /\ UNCHANGED <<overlapVars, hintVars, submitVars>>

\* lines 476-497: the seasons of the team are done; its players are
\* consolidated into its current team.
FoldTeam ==
    /\ legacy_pc = "season_loop"
    /\ seasons_iter = <<>>
    /\ legacy_database' = fold_team(legacy_database, Head(teams_iter), team_players)
    /\ teams_iter' = Tail(teams_iter)
    /\ legacy_pc' = "team_loop"
    /\ UNCHANGED <<seasons, include_games, seasons_iter, team_players,
                   roster_players, game_players, completed_requests,
                   roster_result, games_iter, season_game_players, game_result>>
    /\ UNCHANGED <<mainVars, resolverVars, schedVars>>
    /\ UNCHANGED last_event
    /\ UNCHANGED <<schedule, game_requests>>
    /\ UNCHANGED <<overlapVars, hintVars, submitVars>>

\* line 500: Ok(consolidated_database)
LegacyReturn ==
    /\ legacy_pc = "team_loop"
    /\ teams_iter = <<>>
    /\ legacy_pc' = "returned"
    /\ UNCHANGED <<seasons, include_games, teams_iter, seasons_iter,
                   team_players, roster_players, game_players, legacy_database,
                   completed_requests, roster_result, games_iter,
                   season_game_players, game_result>>
    /\ UNCHANGED <<mainVars, resolverVars, schedVars>>
    /\ UNCHANGED last_event
    /\ UNCHANGED <<schedule, game_requests>>
    /\ UNCHANGED <<overlapVars, hintVars, submitVars>>

LegacyNext ==
    \/ NextTeam
    \/ FetchRoster
    \/ MatchRosterOk
    \/ MatchRosterErr
    \/ SkipGames
    \/ FetchPlayersFromGames
    \/ ScheduleTransportError
    \/ ScheduleNextUrl
    \/ ScheduleAccepted
    \/ ScheduleAllFailed
    \/ ScheduleOk
    \/ ScheduleErr
    \/ SkipGame
    \/ SleepBeforeGame
    \/ FetchGameDetails
    \/ MatchGameOk
    \/ MatchGameErr
    \/ GamesDone
    \/ MatchGamePlayers
    \/ SeasonEnd
    \/ FoldTeam
    \/ LegacyReturn

(***************************************************************************)
(* The read side (src/compute): calculate_overlap_score, the matching of   *)
(* one player of the request against the players of one team.              *)
(***************************************************************************)
\* JSON values: an object with its "id" and "name" as .as_str() sees them,
\* a string, or anything else.
json_object(id, name) == [kind |-> "object", id |-> id, name |-> name]
json_string(val) == [kind |-> "string", val |-> val]
json_other == [kind |-> "other"]

\* "1", "2"
JsonIds == { <<49>>, <<50>> }
\* "Jane Doe", "JOHN DOE" in the database; "jane doe", "John Doe" asked for.
DbNames == { <<74, 97, 110, 101, 32, 68, 111, 101>>, <<74, 79, 72, 78, 32, 68, 79, 69>> }
QueryNames == { <<106, 97, 110, 101, 32, 100, 111, 101>>, <<74, 111, 104, 110, 32, 68, 111, 101>> }

DbEntries ==
    { json_object(id, name) : id \in {None} \cup {Some(i) : i \in JsonIds},
                              name \in {None} \cup {Some(n) : n \in DbNames} }
    \cup { json_string(n) : n \in DbNames } \cup { json_other }

PlayerObjects ==
    { json_object(id, name) : id \in {None} \cup {Some(i) : i \in JsonIds},
                              name \in {None} \cup {Some(n) : n \in QueryNames} }
    \cup { json_string(n) : n \in QueryNames } \cup { json_other }

\* u8::to_ascii_lowercase
to_ascii_lowercase(byte) == IF byte >= 65 /\ byte <= 90 THEN byte + 32 ELSE byte

\* The names compared byte for byte.
eq_exact(a, b) == a = b

\* str::eq_ignore_ascii_case
eq_ignore_ascii_case(a, b) ==
    /\ Len(a) = Len(b)
    /\ \A i \in 1..Len(a) : to_ascii_lowercase(a[i]) = to_ascii_lowercase(b[i])

\* lines 128-135: the name of the player of the request, if it has one.
player_name_of(player) ==
    IF player.kind = "object" /\ player.name.some THEN Some(player.name.val)
    ELSE IF player.kind = "string" THEN Some(player.val)
    ELSE None

\* line 137
player_id_of(player) == IF player.kind = "object" THEN player.id ELSE None

\* lines 149-171: the closure of any(): does the entry p match the player.
entry_matches(p, player_id, player_name) ==
    IF p.kind = "object"
    THEN IF player_id.some /\ p.id.some THEN player_id.val = p.id.val
         ELSE IF p.name.some THEN eq_ignore_ascii_case(p.name.val, player_name)
         ELSE FALSE
    ELSE eq_ignore_ascii_case(IF p.kind = "string" THEN p.val ELSE <<>>, player_name)

\* any() stops at the first entry that matches.
first_match(array, player_id, player_name) ==
    LET matching == { i \in DOMAIN array : entry_matches(array[i], player_id, player_name) }
    IN IF matching = {} THEN None
       ELSE Some(array[CHOOSE i \in matching : \A j \in matching : i <= j])

\* lines 154-156 and 160-162: player_info is the entry any() stopped at when
\* that entry is an object; the arm of the string entries sets nothing.
player_info_found(found) ==
    IF found.some /\ found.val.kind = "object" THEN found ELSE None

OverlapIdle ==
    /\ overlap_pc = "idle"
    /\ player_obj = json_other
    /\ players_array = <<>>
    /\ team_has_player = FALSE
    /\ total_teams_played = 0
    /\ overlap_player_info = None

\* lines 126-146: a player of the request, and a team of the database.
OverlapInit ==
    /\ overlap_pc = "player"
    /\ player_obj \in PlayerObjects
    /\ players_array \in SeqsUpTo(DbEntries, MaxEntries)
    /\ team_has_player = FALSE
    /\ total_teams_played = 0
    /\ overlap_player_info = None

\* lines 128-135: a player without a name is skipped.
SkipInvalidPlayer ==
    /\ overlap_pc = "player"
    /\ ~player_name_of(player_obj).some
    /\ overlap_pc' = "skipped"
    /\ UNCHANGED <<player_obj, players_array, team_has_player,
                   total_teams_played, overlap_player_info>>
    /\ UNCHANGED <<mainVars, resolverVars, schedVars, legacyVars, last_event>>
    /\ UNCHANGED <<hintVars, submitVars>>

\* lines 137-175: the team's players are searched for the player.
MatchTeamPlayers ==
    /\ overlap_pc = "player"
    /\ player_name_of(player_obj).some
    /\ LET found == first_match(players_array, player_id_of(player_obj),
                                player_name_of(player_obj).val)
       IN /\ team_has_player' = found.some
          /\ overlap_player_info' = player_info_found(found)
          /\ total_teams_played' = IF found.some THEN total_teams_played + 1
                                   ELSE total_teams_played
    /\ overlap_pc' = "done"
    /\ UNCHANGED <<player_obj, players_array>>
    /\ UNCHANGED <<mainVars, resolverVars, schedVars, legacyVars, last_event>>
    /\ UNCHANGED <<hintVars, submitVars>>

OverlapNext ==
    \/ SkipInvalidPlayer
    \/ MatchTeamPlayers

(***************************************************************************)
(* compute: generate_hint.                                                 *)
(***************************************************************************)
\* lines 646-661
team_code_from_name(name) ==
    LET codes ==
        insert_all(EmptyMap,
        << <<"Anaheim Ducks", "ANA">>, <<"Boston Bruins", "BOS">>, <<"Buffalo Sabres", "BUF">>,
           <<"Calgary Flames", "CGY">>, <<"Carolina Hurricanes", "CAR">>, <<"Chicago Blackhawks", "CHI">>,
           <<"Colorado Avalanche", "COL">>, <<"Columbus Blue Jackets", "CBJ">>, <<"Dallas Stars", "DAL">>,
           <<"Detroit Red Wings", "DET">>, <<"Edmonton Oilers", "EDM">>, <<"Florida Panthers", "FLA">>,
           <<"Los Angeles Kings", "LAK">>, <<"Minnesota Wild", "MIN">>, <<"Montreal Canadiens", "MTL">>,
           <<"Nashville Predators", "NSH">>, <<"New Jersey Devils", "NJD">>, <<"New York Islanders", "NYI">>,
           <<"New York Rangers", "NYR">>, <<"Ottawa Senators", "OTT">>, <<"Philadelphia Flyers", "PHI">>,
           <<"Pittsburgh Penguins", "PIT">>, <<"San Jose Sharks", "SJS">>, <<"Seattle Kraken", "SEA">>,
           <<"St. Louis Blues", "STL">>, <<"Tampa Bay Lightning", "TBL">>, <<"Toronto Maple Leafs", "TOR">>,
           <<"Utah Hockey Club", "UTA">>, <<"Vancouver Canucks", "VAN">>, <<"Vegas Golden Knights", "VGK">>,
           <<"Washington Capitals", "WSH">>, <<"Winnipeg Jets", "WPG">> >>)
    IN IF name \in DOMAIN codes THEN Some(codes[name]) ELSE None

\* The "teams" object of the database under "playersv2": the lists of "BOS"
\* and "NYR", of entries in the directory format (objects with an id) or in
\* the legacy format (bare names).
HintDatabases ==
    LET entries == { json_object(Some(id), Some(<<74, 97, 110, 101, 32, 68, 111, 101>>)) :
                        id \in JsonIds }
                   \cup { json_string(n) : n \in DbNames }
    IN [ {"BOS", "NYR"} -> SeqsUpTo(entries, MaxEntries) ]

\* lines 499 and 514: p.get("id").and_then(|id| id.as_str()).unwrap_or("")
pid_of(p) == IF p.kind = "object" /\ p.id.some THEN p.id.val ELSE <<>>

\* lines 498-508: the entries of one team.  acc holds all_players and
\* player_team_map.
RECURSIVE visit_players(_, _, _, _)
visit_players(acc, array, team, used) ==
    IF array = <<>> THEN acc
    ELSE LET p == Head(array)
             pid == pid_of(p)
             entry == IF pid \in DOMAIN acc.player_team_map
                      THEN acc.player_team_map[pid] ELSE <<>>
         IN IF \E i \in DOMAIN used : used[i] = pid
            THEN visit_players(acc, Tail(array), team, used)
            ELSE visit_players(
                    [all_players |-> Append(acc.all_players, p),
                     player_team_map |->
                        map_insert(acc.player_team_map, pid,
                            IF \E i \in DOMAIN entry : entry[i] = team THEN entry
                            ELSE Append(entry, team))],
                    Tail(array), team, used)

\* lines 495-511: for team in teams
RECURSIVE visit_teams(_, _, _, _)
visit_teams(acc, teams, object, used) ==
    IF teams = <<>> THEN acc
    ELSE LET team == Head(teams)
             team_code == team_code_from_name(team)
         IN IF team_code.some /\ team_code.val \in DOMAIN object
            THEN visit_teams(visit_players(acc, object[team_code.val], team, used),
                             Tail(teams), object, used)
            ELSE visit_teams(acc, Tail(teams), object, used)

\* lines 513-522: for p in all_players
RECURSIVE find_best(_, _, _, _)
find_best(best, players, checked, map) ==
    IF players = <<>> THEN best
    ELSE LET p == Head(players)
             pid == pid_of(p)
             count == IF pid \in DOMAIN map THEN Len(map[pid]) ELSE 0
         IN IF pid \in checked
            THEN find_best(best, Tail(players), checked, map)
            ELSE find_best(
                    IF count > best.best_count
                    THEN [best_player |-> Some(p), best_count |-> count]
                    ELSE best,
                    Tail(players), checked \cup {pid}, map)

HintIdle ==
    /\ hint_pc = "idle"
    /\ hint_teams = <<>>
    /\ used_players = <<>>
    /\ teams_obj = None
    /\ hint_all_players = <<>>
    /\ player_team_map = EmptyMap
    /\ best_player = None
    /\ best_count = 0
    /\ hint_result = None

\* lines 484-487: the teams and the used ids of the request.  "Hartford
\* Whalers" is a name team_code_from_name does not know.
HintInit ==
    /\ hint_pc = "get"
    /\ hint_teams \in { <<"Boston Bruins">>, <<"Boston Bruins", "New York Rangers">>,
                        <<"New York Rangers", "Boston Bruins">>,
                        <<"Boston Bruins", "Boston Bruins">>,
                        <<"Hartford Whalers", "New York Rangers">> }
    /\ used_players \in { <<>>, <<<<49>>>> }
    /\ teams_obj = None
    /\ hint_all_players = <<>>
    /\ player_team_map = EmptyMap
    /\ best_player = None
    /\ best_count = 0
    /\ hint_result = None

\* line 485: get(2)?
GetErr ==
    /\ hint_pc = "get"
    /\ hint_result' = Some(Err("KVStoreError"))
    /\ hint_pc' = "returned"
    /\ UNCHANGED <<hint_teams, used_players, teams_obj, hint_all_players,
                   player_team_map, best_player, best_count>>
    /\ UNCHANGED <<mainVars, resolverVars, schedVars, legacyVars, last_event>>
    /\ UNCHANGED <<overlapVars, submitVars>>

\* lines 485 and 490: the database was read and its "teams" is an object.
GetOk ==
    /\ hint_pc = "get"
    /\ teams_obj' \in { Some(object) : object \in HintDatabases }
    /\ hint_pc' = "teams_loop"
    /\ UNCHANGED <<hint_teams, used_players, hint_all_players, player_team_map,
                   best_player, best_count, hint_result>>
    /\ UNCHANGED <<mainVars, resolverVars, schedVars, legacyVars, last_event>>
    /\ UNCHANGED <<overlapVars, submitVars>>

\* lines 492-511
BuildPlayerTeamMap ==
    /\ hint_pc = "teams_loop"
    /\ LET acc == visit_teams([all_players |-> <<>>, player_team_map |-> EmptyMap],
                              hint_teams, teams_obj.val, used_players)
       IN /\ hint_all_players' = acc.all_players
          /\ player_team_map' = acc.player_team_map
    /\ hint_pc' = "players_loop"
    /\ UNCHANGED <<hint_teams, used_players, teams_obj, best_player,
                   best_count, hint_result>>
    /\ UNCHANGED <<mainVars, resolverVars, schedVars, legacyVars, last_event>>
    /\ UNCHANGED <<overlapVars, submitVars>>

\* lines 512-523; all_players and player_team_map end with the block.
FindBestPlayer ==
    /\ hint_pc = "players_loop"
    /\ LET best == find_best([best_player |-> None, best_count |-> 0],
                             hint_all_players, {}, player_team_map)
       IN /\ best_player' = best.best_player
          /\ best_count' = best.best_count
    /\ hint_all_players' = <<>>
    /\ player_team_map' = EmptyMap
    /\ hint_pc' = "landing"
    /\ UNCHANGED <<hint_teams, used_players, teams_obj, hint_result>>
    /\ UNCHANGED <<mainVars, resolverVars, schedVars, legacyVars, last_event>>
    /\ UNCHANGED <<overlapVars, submitVars>>

\* lines 527-642: the landing page of the player ("0" when there is none)
\* is requested; a failed request or body is returned as the error, else the
\* hints are returned, the first one telling how many teams the player fits
\* when it does not fit all of them.
FetchLanding ==
    /\ hint_pc = "landing"
    /\ hint_result' \in
          { Some(Err(e)) : e \in {"SendError", "ParseError"} }
          \cup { Some(Ok([id |-> IF best_player.some /\ best_player.val.kind = "object"
                                       /\ best_player.val.id.some
                                    THEN best_player.val.id.val ELSE <<48>>,
                          fits |-> IF best_player.some /\ best_count < Len(hint_teams)
                                   THEN Some(best_count) ELSE None])) }
    /\ hint_pc' = "returned"
    /\ UNCHANGED <<hint_teams, used_players, teams_obj, hint_all_players,
                   player_team_map, best_player, best_count>>
    /\ UNCHANGED <<mainVars, resolverVars, schedVars, legacyVars, last_event>>
    /\ UNCHANGED <<overlapVars, submitVars>>

HintNext ==
    \/ GetErr
    \/ GetOk
    \/ BuildPlayerTeamMap
    \/ FindBestPlayer
    \/ FetchLanding

(***************************************************************************)
(* compute: submit_daily_solution.                                         *)
(***************************************************************************)
SubmitIdle ==
    /\ kv_usage = None
    /\ kv_submissions = EmptyMap
    /\ req_pc = <<>>
    /\ req_user = <<>>
    /\ req_players = <<>>
    /\ req_usage = <<>>
    /\ req_result = <<>>

\* lines 270-272: for player in &players { *usage_stats.entry(..).or_insert(0) += 1 }
RECURSIVE increment_usage(_, _)
increment_usage(usage_stats, players) ==
    IF players = <<>> THEN usage_stats
    ELSE increment_usage(
            map_insert(usage_stats, Head(players),
                (IF Head(players) \in DOMAIN usage_stats
                 THEN usage_stats[Head(players)] ELSE 0) + 1),
            Tail(players))

\* Requests for /submit_daily of one date have arrived, each in its own
\* instance of the service; the store holds nothing for the date.
SubmitInit ==
    /\ kv_usage = None
    /\ kv_submissions = EmptyMap
    /\ req_pc = [r \in 1..MaxRequests |-> "lookup"]
    /\ req_user \in [1..MaxRequests -> {"u1", "u2"}]
    /\ req_players \in [1..MaxRequests -> {<<"Jane Doe">>, <<"Jane Doe", "John Doe">>}]
    /\ req_usage = [r \in 1..MaxRequests |-> EmptyMap]
    /\ req_result = [r \in 1..MaxRequests |-> None]

\* The submission record is not looked for.
LookupSubmission_unchecked ==
    /\ \E r \in DOMAIN req_pc :
          /\ req_pc[r] = "lookup"
          /\ req_pc' = [req_pc EXCEPT ![r] = "score"]
          /\ UNCHANGED req_result
    /\ UNCHANGED <<kv_usage, kv_submissions, req_user, req_players, req_usage>>
    /\ UNCHANGED <<mainVars, resolverVars, schedVars, legacyVars, last_event>>
    /\ UNCHANGED <<overlapVars, hintVars>>

\* lines 236-243: if store.lookup(&submission_key).is_ok() { return .. }
LookupSubmission ==
    /\ \E r \in DOMAIN req_pc :
          /\ req_pc[r] = "lookup"
          /\ IF req_user[r] \in DOMAIN kv_submissions
             THEN /\ req_result' = [req_result EXCEPT ![r] = Some(Ok("already_submitted"))]
                  /\ req_pc' = [req_pc EXCEPT ![r] = "returned"]
             ELSE /\ req_pc' = [req_pc EXCEPT ![r] = "score"]
                  /\ UNCHANGED req_result
    /\ UNCHANGED <<kv_usage, kv_submissions, req_user, req_players, req_usage>>
    /\ UNCHANGED <<mainVars, resolverVars, schedVars, legacyVars, last_event>>
    /\ UNCHANGED <<overlapVars, hintVars>>

\* lines 245-257: get_daily_teams()? and calculate_overlap_score(..)?, which
\* reads the database with get(2)?
ScoreSubmission ==
    /\ \E r \in DOMAIN req_pc :
          /\ req_pc[r] = "score"
          /\ \/ /\ req_pc' = [req_pc EXCEPT ![r] = "read_usage"]
                /\ UNCHANGED req_result
             \/ /\ req_result' = [req_result EXCEPT ![r] = Some(Err("KVStoreError"))]
                /\ req_pc' = [req_pc EXCEPT ![r] = "returned"]
    /\ UNCHANGED <<kv_usage, kv_submissions, req_user, req_players, req_usage>>
    /\ UNCHANGED <<mainVars, resolverVars, schedVars, legacyVars, last_event>>
    /\ UNCHANGED <<overlapVars, hintVars>>

\* lines 259-272: the usage statistics are read and incremented in memory.
ReadUsage ==
    /\ \E r \in DOMAIN req_pc :
          /\ req_pc[r] = "read_usage"
          /\ req_usage' =
                [req_usage EXCEPT ![r] =
                    increment_usage(IF kv_usage.some THEN kv_usage.val ELSE EmptyMap,
                                    req_players[r])]
          /\ req_pc' = [req_pc EXCEPT ![r] = "insert_usage"]
    /\ UNCHANGED <<kv_usage, kv_submissions, req_user, req_players, req_result>>
    /\ UNCHANGED <<mainVars, resolverVars, schedVars, legacyVars, last_event>>
    /\ UNCHANGED <<overlapVars, hintVars>>

\* lines 274-276: store.insert(&usage_key, ..)?
InsertUsage ==
    /\ \E r \in DOMAIN req_pc :
          /\ req_pc[r] = "insert_usage"
          /\ \/ /\ kv_usage' = Some(req_usage[r])
                /\ req_pc' = [req_pc EXCEPT ![r] = "insert_submission"]
                /\ UNCHANGED req_result
             \/ /\ req_result' = [req_result EXCEPT ![r] = Some(Err("KVStoreError"))]
                /\ req_pc' = [req_pc EXCEPT ![r] = "returned"]
                /\ UNCHANGED kv_usage
    /\ UNCHANGED <<kv_submissions, req_user, req_players, req_usage>>
    /\ UNCHANGED <<mainVars, resolverVars, schedVars, legacyVars, last_event>>
    /\ UNCHANGED <<overlapVars, hintVars>>

\* lines 278-299: store.insert(&submission_key, ..)?, then the placeholder
\* leaderboard, which cannot fail, and the success response.
InsertSubmission ==
    /\ \E r \in DOMAIN req_pc :
          /\ req_pc[r] = "insert_submission"
          /\ \/ /\ kv_submissions' =
                      map_insert(kv_submissions, req_user[r],
                                 [players |-> req_players[r],
                                  player_count |-> Len(req_players[r])])
                /\ req_result' = [req_result EXCEPT ![r] = Some(Ok("success"))]
             \/ /\ req_result' = [req_result EXCEPT ![r] = Some(Err("KVStoreError"))]
                /\ UNCHANGED kv_submissions
          /\ req_pc' = [req_pc EXCEPT ![r] = "returned"]
    /\ UNCHANGED <<kv_usage, req_user, req_players, req_usage>>
    /\ UNCHANGED <<mainVars, resolverVars, schedVars, legacyVars, last_event>>
    /\ UNCHANGED <<overlapVars, hintVars>>

SubmitNext ==
    \/ LookupSubmission
    \/ ScoreSubmission
    \/ ReadUsage
    \/ InsertUsage
    \/ InsertSubmission

(***************************************************************************)
(* Specifications.                                                         *)
(***************************************************************************)
\* No request has been made and the process has not slept.
NetIdle == last_event = "none"

Init == MainInit /\ ResolverIdle /\ SchedIdle /\ LegacyIdle /\ NetIdle /\ OverlapIdle
    /\ HintIdle /\ SubmitIdle

Next == MainNext

\* main, in directory mode
Spec == Init /\ [][Next]_vars

InitResolver == ResolverInit /\ MainIdle /\ SchedIdle /\ LegacyIdle /\ NetIdle /\ OverlapIdle
    /\ HintIdle /\ SubmitIdle

\* the Team Identity Resolver
SpecResolver == InitResolver /\ [][ResolverNext]_vars

InitSchedule == SchedInit /\ MainIdle /\ ResolverIdle /\ LegacyIdle /\ NetIdle /\ OverlapIdle
    /\ HintIdle /\ SubmitIdle

\* fetch_team_schedule
SpecSchedule == InitSchedule /\ [][ScheduleNext]_vars

InitLegacy == LegacyInit /\ MainIdle /\ ResolverIdle /\ SchedIdle /\ NetIdle /\ OverlapIdle
    /\ HintIdle /\ SubmitIdle

\* build_database_legacy
SpecLegacy == InitLegacy /\ [][LegacyNext]_vars

InitOverlap ==
    OverlapInit /\ MainIdle /\ ResolverIdle /\ SchedIdle /\ LegacyIdle /\ NetIdle
    /\ HintIdle /\ SubmitIdle

\* calculate_overlap_score
SpecOverlap == InitOverlap /\ [][OverlapNext]_vars

InitHint ==
    HintInit /\ MainIdle /\ ResolverIdle /\ SchedIdle /\ LegacyIdle /\ NetIdle
    /\ OverlapIdle /\ SubmitIdle

\* generate_hint
SpecHint == InitHint /\ [][HintNext]_vars

InitSubmit ==
    SubmitInit /\ MainIdle /\ ResolverIdle /\ SchedIdle /\ LegacyIdle /\ NetIdle
    /\ OverlapIdle /\ HintIdle

\* submit_daily_solution, one call for each request
SpecSubmit == InitSubmit /\ [][SubmitNext]_vars

\* PlayerDetails with the optional attributes present or absent: the
\* details of a player born in "Ottawa", "CAN", who played the 2022-23
\* season for "Utah Hockey Club".
BirthPlaceDetails ==
    [player_id : PlayerIds, first_name : FirstNames, last_name : LastNames,
     birth_date : {None, Some(<<49, 57, 57, 48>>)},
     birth_city : {None, Some(<<79, 116, 116, 97, 119, 97>>)},
     birth_country : {None, Some(<<67, 65, 78>>)},
     position : {None, Some(<<67>>)},
     season_totals :
        {Some(<<[season |-> 20222023, team_name |-> Some("Utah Hockey Club")]>>)}]

\* The details of the last player of the directory have arrived.
InitBirthPlace ==
    /\ pc = "match_details"
    /\ cli = [output |-> "nhl_players.json", delay |-> 100, start_year |-> 2020,
              end_year |-> 2025, include_games |-> FALSE,
              use_player_search |-> TRUE]
    /\ players_iter \in { <<[player_id |-> to_string(i)]>> : i \in PlayerIds }
    /\ total_players = 1
    /\ consolidated_database = init_database
    /\ processed_count = 1
    /\ players_with_teams = 0
    /\ api_errors = 0
    /\ details_result \in { Some(Ok(d)) : d \in BirthPlaceDetails }
    /\ output_file = None
    /\ ResolverIdle /\ SchedIdle /\ LegacyIdle /\ OverlapIdle
    /\ HintIdle /\ SubmitIdle
    /\ last_event = "request"

BirthPlaceNext ==
    \/ MatchDetailsOk
    \/ WriteDatabase
    \/ WriteDatabaseErr

\* the Ok arm of the detail fetch (lines 339-385) and the output, for
\* details with optional attributes
SpecBirthPlace == InitBirthPlace /\ [][BirthPlaceNext]_vars

(***************************************************************************)
(* Properties of the output of main.                                       *)
(***************************************************************************)
CurrentCodes == Range(CURRENT_TEAM_CODES)
HistoricalCodes == Range(HISTORICAL_TEAM_CODES)

\* a <= b for byte strings: a is a prefix of b, or the first byte in which
\* they differ is smaller in a.
bytes_le(a, b) ==
    \/ /\ Len(a) <= Len(b)
       /\ \A i \in 1..Len(a) : a[i] = b[i]
    \/ \E k \in 1..Len(a) :
          /\ k <= Len(b)
          /\ \A i \in 1..(k - 1) : a[i] = b[i]
          /\ a[k] < b[k]

\* ASCII letters folded to lower case.
lower(a) == [i \in DOMAIN a |-> IF a[i] >= 65 /\ a[i] <= 90 THEN a[i] + 32 ELSE a[i]]

\* Equality of two records for deduplication: by id when both have one,
\* else by name ignoring case.
has_id(entry) == "id" \in DOMAIN entry
name_of(entry) == IF has_id(entry) THEN entry.name ELSE entry
same_identity(a, b) ==
    IF has_id(a) /\ has_id(b) THEN a.id = b.id
    ELSE lower(name_of(a)) = lower(name_of(b))

\* main has ended after the directory request was issued.
RunEnded == pc \in {"exit_ok", "exit_err"}

\* C1: whatever the outcomes of the requests, also when every one of them
\* fails, the run ends with an output whose teams map has exactly the 32
\* current franchise codes as keys (an empty list for a franchise without
\* players, never a missing key).
C1_TeamsKeyedByCurrentCodes ==
    RunEnded =>
        /\ output_file.some
        /\ DOMAIN output_file.val.teams = CurrentCodes
        /\ Cardinality(CurrentCodes) = 32

\* C2: no team's player list of the output holds two entries of equal
\* identity (equal ids when both have one, else equal names ignoring case).
C2_NoTwoEntriesOfEqualIdentity ==
    output_file.some =>
        \A team \in DOMAIN output_file.val.teams :
            LET list == output_file.val.teams[team] IN
            \A i, j \in DOMAIN list :
                i # j => ~same_identity(list[i], list[j])

\* C3: every team's player list of the output is sorted ascending by
\* display name: adjacent entries a, b have a.name <= b.name.
C3_ListsSortedByName ==
    output_file.some =>
        \A team \in DOMAIN output_file.val.teams :
            LET list == output_file.val.teams[team] IN
            \A i \in 1..(Len(list) - 1) :
                bytes_le(list[i].name, list[i + 1].name)

\* An output with a list of two entries of different names.
C3_Witness ==
    /\ output_file.some
    /\ \E team \in DOMAIN output_file.val.teams :
          LET list == output_file.val.teams[team] IN
          /\ Len(list) >= 2
          /\ list[1].name # list[2].name

\* The record the output holds for a fetched player.
expected_entry(details) ==
    [id |-> to_string(details.player_id),
     name |-> details.first_name \o <<32>> \o details.last_name,
     birth_date |-> details.birth_date,
     birth_place |->
        IF ~details.birth_country.some THEN None
        ELSE IF details.birth_city.some
            THEN Some(details.birth_city.val \o <<44, 32>> \o details.birth_country.val)
        ELSE details.birth_country,
     position |-> details.position]

\* The season-total entries of a player that qualify: start year in the
\* range.
entries_of(details) ==
    IF details.season_totals.some THEN Range(details.season_totals.val) ELSE {}
start_year_in_range(entry) ==
    /\ entry.season \div 10000 >= cli.start_year
    /\ entry.season \div 10000 <= cli.end_year

\* The current franchise of each team full name, by the tables.
known_team_names == { team_codes_pairs[i][1] : i \in DOMAIN team_codes_pairs }
franchise_of_name ==
    [ team_name \in known_team_names |->
        LET code == CHOOSE c \in CurrentCodes \cup HistoricalCodes :
                        \E i \in DOMAIN team_codes_pairs :
                            team_codes_pairs[i] = <<team_name, c>>
        IN IF code \in CurrentCodes THEN code
           ELSE CHOOSE cur \in CurrentCodes :
                    \E i \in DOMAIN Relocations : Relocations[i] = <<code, cur>> ]
franchise_of(team_name) == franchise_of_name[team_name]
known_team_name(team_name) == team_name \in known_team_names

\* The step that handles a successful detail fetch.
HandlesDetails == pc = "match_details" /\ details_result.val.ok

\* C7: directory mode: a player whose detail fetch succeeds is listed, for
\* each of their season totals with a start year in [start_year, end_year]
\* and a team name the lookup knows, under the current franchise of that
\* name.  Step by step: the handling of the fetch puts the player into the
\* set of each such franchise, no set ever loses a player, and the output
\* lists exactly the players of the sets.
C7_InRangeTeamsListThePlayer ==
    [][ /\ HandlesDetails =>
            \A entry \in entries_of(details_result.val.val) :
                (/\ start_year_in_range(entry)
                 /\ entry.team_name.some
                 /\ known_team_name(entry.team_name.val))
                => expected_entry(details_result.val.val)
                     \in consolidated_database'[franchise_of(entry.team_name.val)]
        /\ \A team \in DOMAIN consolidated_database :
               consolidated_database[team] \subseteq consolidated_database'[team]
        /\ output_file'.some =>
               \A team \in CurrentCodes :
                   Range(output_file'.val.teams[team]) = consolidated_database[team]
      ]_vars

\* An output that lists one player under Utah and under Winnipeg, the
\* franchise of the Atlanta Thrashers.
C7_Witness ==
    /\ output_file.some
    /\ cli.start_year = 2020 /\ cli.end_year = 2025
    /\ processed_count = 1
    /\ \E entry \in Range(output_file.val.teams["UTA"]) :
          entry \in Range(output_file.val.teams["WPG"])

\* C8: the start year of a season code is the code divided by 10000, and a
\* player all of whose season totals start outside [start_year, end_year]
\* contributes to no team: handling their fetch changes no team's set.
C8_OutOfRangePlayerIsDropped ==
    [][ /\ season_start_year(20152016) = 2015
        /\ (/\ HandlesDetails
             /\ \A entry \in entries_of(details_result.val.val) :
                    ~start_year_in_range(entry))
            => /\ consolidated_database' = consolidated_database
               /\ players_with_teams' = players_with_teams
      ]_vars

\* A player is about to be handled whose season totals all lie outside the
\* range and name a team the lookup knows, after another player was added.
C8_Witness ==
    /\ HandlesDetails
    /\ entries_of(details_result.val.val) # {}
    /\ \A entry \in entries_of(details_result.val.val) :
          /\ ~start_year_in_range(entry)
          /\ entry.team_name = Some("Utah Hockey Club")
    /\ cli.start_year <= cli.end_year
    /\ players_with_teams = 1

(***************************************************************************)
(* Properties of the Team Identity Resolver.                               *)
(***************************************************************************)
\* C4: the team identity map is a total function on current and historical
\* codes: its domain is the 32 current and the 11 historical codes, every
\* historical code maps to one current code, every current code to itself,
\* and a lookup never returns a code outside the current set (and returns
\* nothing for a code outside the domain).
C4_MappingTotalOntoCurrent ==
    /\ Cardinality(CurrentCodes) = 32
    /\ Cardinality(HistoricalCodes) = 11
    /\ CurrentCodes \cap HistoricalCodes = {}
    /\ resolver_pc \in {"once", "twice"} =>
          /\ resolver_first.some <=> resolver_code \in CurrentCodes \cup HistoricalCodes
          /\ resolver_first.some => resolver_first.val \in CurrentCodes
          /\ resolver_code \in CurrentCodes => resolver_first = Some(resolver_code)

\* The rename of the Mighty Ducks has been looked up.
C4_Witness ==
    /\ resolver_pc = "once"
    /\ resolver_code = "MIG"
    /\ resolver_first = Some("ANA")

\* C5: canonicalization is idempotent: for a current or historical code,
\* looking up the result of the lookup is defined and returns that result.
C5_CanonicalizeIdempotent ==
    /\ (resolver_pc = "once" /\ resolver_code \in CurrentCodes \cup HistoricalCodes)
          => resolver_first.some
    /\ resolver_pc = "twice" =>
          /\ resolver_second.some
          /\ resolver_second = resolver_first

\* The Kansas City Scouts, who moved twice, have been looked up twice.
C5_Witness ==
    /\ resolver_pc = "twice"
    /\ resolver_code = "KCS"
    /\ resolver_second = Some("NJD")

(***************************************************************************)
(* Properties of the legacy strategy.                                      *)
(***************************************************************************)
\* The names a roster response lists, in the form "First Last".
listed(list) ==
    IF list.some
    THEN { list.val[i].first_name \o <<32>> \o list.val[i].last_name : i \in DOMAIN list.val }
    ELSE {}
roster_names(roster_data) ==
    listed(roster_data.forwards) \cup listed(roster_data.defensemen)
        \cup listed(roster_data.goalies)

\* The bucket of the team in hand stays that bucket over the step.
SameTeam == legacy_pc # "team_loop" /\ legacy_pc' # "team_loop"

\* The seasons of the team in hand are done: its bucket is consolidated.
FoldsTeam == legacy_pc = "season_loop" /\ seasons_iter = <<>>

\* C6: the players accumulated under a historical team code are placed
\* under the canonical current franchise of that code, and no key of the
\* database is a historical code.  Step by step: the names of a roster that
\* was fetched go into the bucket of the team, the bucket keeps them until
\* the seasons of the team are done, the bucket of a historical code is then
\* contained in the set of the franchise canonicalize gives for the code, no
\* set of the database ever loses a name, and the keys of the database are
\* never historical codes.
C6_HistoricalBucketUnderCurrentFranchise ==
    [][ /\ (legacy_pc = "match_roster" /\ roster_result.val.ok)
            => roster_names(roster_result.val.val) \subseteq team_players'
        /\ SameTeam => team_players \subseteq team_players'
        /\ (FoldsTeam /\ Head(teams_iter) \in HistoricalCodes)
            => /\ canonicalize(Head(teams_iter)).some
               /\ canonicalize(Head(teams_iter)).val \in CurrentCodes
               /\ team_players \subseteq
                      legacy_database'[canonicalize(Head(teams_iter)).val]
        /\ \A key \in DOMAIN legacy_database :
              /\ key \in DOMAIN legacy_database'
              /\ legacy_database[key] \subseteq legacy_database'[key]
        /\ DOMAIN legacy_database' \cap HistoricalCodes = {}
      ]_vars

\* The roster of "ATL" listed "John Doe"; "ATL" has been consolidated ("HFD"
\* is next): "John Doe" is under "WPG" and there is no key "ATL".
C6_Witness ==
    /\ legacy_pc = "team_loop"
    /\ teams_iter # <<>>
    /\ Head(teams_iter) = "HFD"
    /\ full_name_of(JohnDoe.first_name, JohnDoe.last_name) \in roster_players
    /\ full_name_of(JohnDoe.first_name, JohnDoe.last_name) \in legacy_database["WPG"]
    /\ "ATL" \notin DOMAIN legacy_database

(***************************************************************************)
(* Properties of the Schedule Fetcher.                                     *)
(***************************************************************************)
\* The urls whose request would end in a schedule, by position.
valid_urls == { i \in 1..3 : sched_env[i].ok }
first_valid == CHOOSE i \in valid_urls : \A j \in valid_urls : i <= j
soft_failure(outcome) ==
    ~outcome.ok /\ outcome.err \in {HttpStatusError, ParseError}

\* C9: the fetcher requests its three urls in their fixed order; a schedule
\* it returns is that of the first url whose response has a success status
\* and parses, and no url after that one is requested; when the urls before
\* that one end in a status that is not 2xx or in a body that does not
\* parse, it returns that schedule (with the third url the first good one:
\* after exactly three requests).
C9_FirstParsedScheduleIsReturned ==
    /\ sched_pc # "idle" =>
          sched_requests =
              SubSeq(schedule_urls(sched_team, sched_season), 1, Len(sched_requests))
    /\ (sched_pc = "returned" /\ sched_result.val.ok) =>
          /\ valid_urls # {}
          /\ sched_result.val.val = sched_env[first_valid].val
          /\ Len(sched_requests) = first_valid
    /\ (/\ sched_pc = "returned"
         /\ valid_urls # {}
         /\ \A i \in 1..(first_valid - 1) : soft_failure(sched_env[i]))
        => /\ sched_result.val = Ok(sched_env[first_valid].val)
           /\ Len(sched_requests) = first_valid

\* The first url answered with a status that is not 2xx, the second with a
\* body that does not parse, and the schedule of the third was returned.
C9_Witness ==
    /\ sched_pc = "returned"
    /\ sched_env[1] = Err(HttpStatusError)
    /\ sched_env[2] = Err(ParseError)
    /\ sched_env[3].ok
    /\ sched_result.val = Ok(sched_env[3].val)
    /\ Len(sched_requests) = 3

\* C10: the fetcher returns a failure only when every one of its urls has
\* failed: whatever the failure of an earlier url (transport, status or
\* parse), the later ones are tried, so it returns a schedule if any url
\* would.
C10_FailureOnlyWhenAllUrlsFailed ==
    sched_pc = "returned" =>
        /\ valid_urls # {} => sched_result.val.ok
        /\ ~sched_result.val.ok => Len(sched_requests) = 3

(***************************************************************************)
(* Properties of a whole run.                                              *)
(***************************************************************************)
\* C11: determinism: the teams content of the output is determined by the
\* configuration and the responses.  consolidated_database is a function of
\* these; the output written from it is the only one main may build from it
\* (same keys, and for each key the same entries in the same order, also
\* for entries of equal name).
C11_TeamsDeterminedByResponses ==
    pc = "exit_ok" =>
        \A teams \in teams_of(consolidated_database) :
            output_file.val.teams = teams

\* The step issues an outbound request: of the directory, of a landing page,
\* of a roster, of a schedule url or of a boxscore.
IssuesRequest ==
    \/ pc = "fetch_all_players" /\ pc' # pc
    \/ ~details_result.some /\ details_result'.some
    \/ ~roster_result.some /\ roster_result'.some
    \/ Len(sched_requests') > Len(sched_requests)
    \/ ~game_result.some /\ game_result'.some

\* C12: rate limiting: requests are made one at a time, and between the
\* completion of a request of any fetcher and the issue of the next request
\* the process has slept for the configured delay: no request is issued
\* while the last thing that happened on the network is a request.
C12_SleepBetweenRequests ==
    [][IssuesRequest => last_event # "request"]_vars

C14_NoRequestFailureIsFatal ==
    /\ pc = "exit_err" => last_event = "none"
    /\ (pc \in {"exit_ok", "exit_err"} /\ last_event # "none") => output_file.some

\* C15: a season range whose start year is greater than its end year is a
\* fatal configuration error: the run issues no request and writes no
\* output.
C15_InvalidRangeIsFatal ==
    cli.start_year > cli.end_year =>
        /\ last_event = "none"
        /\ ~output_file.some

\* The step that handles a failed detail fetch.
HandlesFailure == pc = "match_details" /\ ~details_result.val.ok

\* C16: directory mode isolates failures.  The handling of a failed detail
\* fetch adds exactly one to the error counter, goes on to the next player
\* and changes nothing else; no other step changes the counter, so at the
\* end it is the number of failed fetches.  The handling of a successful
\* fetch puts the player under the franchise of each in-range season entry
\* with a known team name, whatever happened to the players before; no set
\* loses a player afterwards, and the output is written when every player
\* of the directory has been processed, with all the players of the sets.
C16_FailedFetchSkipsThatPlayerOnly ==
    [][ /\ HandlesFailure =>
            /\ api_errors' = api_errors + 1
            /\ players_iter' = Tail(players_iter)
            /\ pc' = "player_loop"
            /\ UNCHANGED <<consolidated_database, players_with_teams,
                           processed_count, total_players, output_file, cli>>
        /\ ~HandlesFailure => api_errors' = api_errors
        /\ HandlesDetails =>
            /\ players_iter' = Tail(players_iter)
            /\ \A entry \in entries_of(details_result.val.val) :
                  (/\ start_year_in_range(entry)
                   /\ entry.team_name.some
                   /\ known_team_name(entry.team_name.val))
                  => expected_entry(details_result.val.val)
                       \in consolidated_database'[franchise_of(entry.team_name.val)]
        /\ pc # "fetch_all_players" =>
               \A team \in DOMAIN consolidated_database :
                   consolidated_database[team] \subseteq consolidated_database'[team]
        /\ (~output_file.some /\ output_file'.some) =>
            /\ processed_count = total_players
            /\ api_errors <= total_players
            /\ \A team \in DOMAIN consolidated_database :
                  consolidated_database[team]
                      \subseteq Range(output_file'.val.teams[team])
      ]_vars

\* The loop is over: of two players the fetch of one failed and the other
\* is in the database.
C16_Witness ==
    /\ pc = "player_loop"
    /\ players_iter = <<>>
    /\ total_players = 2
    /\ api_errors = 1
    /\ players_with_teams = 1
    /\ \E team \in DOMAIN consolidated_database : consolidated_database[team] # {}

id_in(value) == IF value.kind = "object" THEN value.id ELSE None
name_in(value) ==
    IF value.kind = "object" THEN value.name
    ELSE IF value.kind = "string" THEN Some(value.val)
    ELSE None

\* The entry is the player asked for: by id when both have an id, else by
\* name ignoring case.
is_player(entry, asked) ==
    IF id_in(asked).some /\ id_in(entry).some
    THEN id_in(asked).val = id_in(entry).val
    ELSE /\ name_in(entry).some
         /\ lower(name_in(entry).val) = lower(name_in(asked).val)

RECURSIVE played_by(_, _)
played_by(games, team_code) ==
    IF games = <<>> THEN <<>>
    ELSE (IF team_code \in {Head(games).away_team.abbrev, Head(games).home_team.abbrev}
          THEN <<Head(games)>> ELSE <<>>)
         \o played_by(Tail(games), team_code)

\* The first n elements of a list, all of them when it has fewer.
first_n(list, n) == [i \in 1..(IF Len(list) < n THEN Len(list) ELSE n) |-> list[i]]

ids_of(games) == [i \in DOMAIN games |-> games[i].id]

\* fetch_players_from_games has gone through the games of a schedule.
GamesLoopOver == legacy_pc = "games_loop" /\ games_iter = <<>> /\ schedule.some

\* C19 as stated: the schedule is first filtered to the games the team
\* played in, and boxscores are requested for the first min(10, n) of these
\* n games, in schedule order.
C19_FirstTenGamesOfTheTeam ==
    GamesLoopOver =>
        game_requests =
            ids_of(first_n(played_by(schedule.val.games, Head(teams_iter)), 10))

\* C19 amended: the first 10 games of the schedule are taken, and boxscores
\* are requested for those of them the team played in, in schedule order.
C19_GamesOfTheTeamAmongFirstTen ==
    GamesLoopOver =>
        game_requests =
            ids_of(played_by(first_n(schedule.val.games, 10), Head(teams_iter)))

\* The schedule of eleven games, the first of other teams: nine boxscores
\* were requested.
C19_Witness ==
    /\ GamesLoopOver
    /\ Len(schedule.val.games) = 11
    /\ Len(game_requests) = 9

\* C20: for a team and season the legacy strategy requests at most 10
\* boxscores, all of games among the first 10 of the schedule; a boxscore
\* request that fails is skipped: nothing is added, the loop goes on with
\* the next game, and at the end every game of the team among the first 10
\* has been requested.
C20_AtMostTenBoxscoresFromTheStart ==
    [][ /\ Len(game_requests') <= 10
        /\ schedule'.some =>
              \A i \in DOMAIN game_requests' :
                  \E k \in DOMAIN first_n(schedule'.val.games, 10) :
                      schedule'.val.games[k].id = game_requests'[i]
        /\ (legacy_pc = "match_game" /\ ~game_result.val.ok) =>
              /\ games_iter' = Tail(games_iter)
              /\ legacy_pc' = "games_loop"
              /\ UNCHANGED <<season_game_players, game_requests, schedule>>
        /\ (legacy_pc' = "games_loop" /\ games_iter' = <<>> /\ schedule'.some) =>
              \A k \in DOMAIN first_n(schedule'.val.games, 10) :
                  Head(teams_iter) \in { schedule'.val.games[k].away_team.abbrev,
                                         schedule'.val.games[k].home_team.abbrev }
                  => \E i \in DOMAIN game_requests' :
                         game_requests'[i] = schedule'.val.games[k].id
      ]_vars

\* A boxscore request of the schedule of eleven games has failed while
\* selected games are left.
C20_Witness ==
    /\ legacy_pc = "match_game"
    /\ ~game_result.val.ok
    /\ schedule.some
    /\ Len(schedule.val.games) = 11
    /\ Len(games_iter) > 1
    /\ Len(game_requests) >= 2

(***************************************************************************)
(* Properties of the sets of the legacy strategy.                          *)
(***************************************************************************)
\* C21: after any number of seasons of a team the game-only set holds no
\* player of the roster set, the combined set is the union of the two, and
\* the total count is the roster count plus the game-only count.
C21_GameOnlySetDisjointFromRoster ==
    legacy_pc = "season_loop" =>
        /\ game_players \cap roster_players = {}
        /\ team_players = roster_players \cup game_players
        /\ Cardinality(team_players)
              = Cardinality(roster_players) + Cardinality(game_players)

\* A request of the team and season in hand has failed: the roster, the
\* schedule (every url), or a boxscore.
RosterFailed == legacy_pc = "match_roster" /\ ~roster_result.val.ok
ScheduleFailed ==
    legacy_pc = "fetch_team_schedule" /\ sched_pc = "returned" /\ ~sched_result.val.ok
BoxscoreFailed == legacy_pc = "match_game" /\ ~game_result.val.ok

\* C22: the legacy strategy isolates failures.  The handling of a failed
\* roster, schedule or boxscore request adds no player to any set and
\* leaves the loops where they are (a failed schedule yields no game
\* player at all); the roster of every team and season is requested, each
\* season of each team being counted once, so that the run ends with
\* teams x seasons pairs done; and the database changes only when the
\* seasons of the team in hand are all done.
C22_LegacyFailureSkipsThatFetchOnly ==
    [][ /\ (RosterFailed \/ ScheduleFailed \/ BoxscoreFailed) =>
              /\ UNCHANGED <<team_players, roster_players, game_players,
                             legacy_database, teams_iter, seasons_iter,
                             completed_requests, season_game_players>>
              /\ legacy_pc' \in {"after_roster", "games_returned", "games_loop"}
        /\ ScheduleFailed => season_game_players = {}
        /\ (legacy_pc = "season_loop" /\ seasons_iter # <<>>) =>
              /\ roster_result'.some
              /\ UNCHANGED <<teams_iter, seasons_iter>>
        /\ legacy_pc' = "season_loop" =>
              completed_requests' =
                  (Len(get_all_team_codes) - Len(teams_iter')) * Len(seasons')
                  + (Len(seasons') - Len(seasons_iter'))
        /\ legacy_pc' = "returned" =>
              /\ teams_iter' = <<>>
              /\ completed_requests' = Len(get_all_team_codes) * Len(seasons')
        /\ legacy_database' # legacy_database =>
              /\ legacy_pc = "season_loop"
              /\ seasons_iter = <<>>
      ]_vars

\* The roster request of the second season of "ATL" has failed after the
\* first season gave the team players.
C22_Witness ==
    /\ RosterFailed
    /\ Head(teams_iter) = "ATL"
    /\ Len(seasons) = 2
    /\ Len(seasons_iter) = 1
    /\ team_players # {}

RECURSIVE parse_number(_)
parse_number(bytes) ==
    IF bytes = <<>> THEN 0
    ELSE 10 * parse_number(SubSeq(bytes, 1, Len(bytes) - 1))
             + (bytes[Len(bytes)] - 48)

listed_start_years(seasons_covered) ==
    { parse_number(seasons_covered[i]) \div 10000 : i \in DOMAIN seasons_covered }

\* C24: seasons_covered of the written output holds one code per year y of
\* start_year..end_year, in ascending order of y, the code being the digits
\* of y followed by the digits of y + 1, so that the code read as a number
\* and divided by 10000 is y; and every season entry of a fetched player
\* that passes the range filter has the start year of one of the seasons
\* the output of that run lists.
C24_OneSeasonPerYearOfTheRange ==
    /\ output_file.some =>
          LET seasons_covered == output_file.val.seasons_covered IN
          /\ Len(seasons_covered)
                = (IF cli.end_year >= cli.start_year
                   THEN cli.end_year - cli.start_year + 1 ELSE 0)
          /\ \A i \in DOMAIN seasons_covered :
                /\ seasons_covered[i]
                      = to_string(cli.start_year + i - 1)
                            \o to_string(cli.start_year + i)
                /\ parse_number(seasons_covered[i]) \div 10000
                      = cli.start_year + i - 1
    /\ HandlesDetails =>
          \A entry \in entries_of(details_result.val.val) :
              in_season_range(entry.season, cli.start_year, cli.end_year)
              => entry.season \div 10000
                    \in listed_start_years(seasons_of(cli.start_year, cli.end_year))

\* The run over 2020..2025 wrote its output: six seasons are listed and a
\* player with a 2022-23 entry is under "UTA".
C24_Witness ==
    /\ output_file.some
    /\ cli.start_year = 2020 /\ cli.end_year = 2025
    /\ Len(output_file.val.seasons_covered) = 6
    /\ output_file.val.teams["UTA"] # <<>>

\* An entry that places its player under the franchise: in range, with a
\* team name of the table, whose code canonicalizes to the franchise.
places_under(entry, franchise) ==
    /\ start_year_in_range(entry)
    /\ entry.team_name.some
    /\ known_team_name(entry.team_name.val)
    /\ franchise_of(entry.team_name.val) = franchise

\* C27: a player enters the set of a franchise only in the step that
\* handles the successful detail fetch of that player, and only when one of
\* the season entries of the player is in the range and names a team whose
\* code canonicalizes to that franchise; the lists of the output hold only
\* members of those sets.  So no out-of-range entry, entry without a team
\* name, unmappable team name or failed fetch places a player.
C27_PlacedOnlyByAQualifyingEntry ==
    [][ /\ \A franchise \in DOMAIN consolidated_database :
              \A player_info \in consolidated_database'[franchise]
                                    \ consolidated_database[franchise] :
                  /\ HandlesDetails
                  /\ player_info = expected_entry(details_result.val.val)
                  /\ \E entry \in entries_of(details_result.val.val) :
                        places_under(entry, franchise)
        /\ output_file'.some =>
              \A franchise \in DOMAIN output_file'.val.teams :
                  Range(output_file'.val.teams[franchise])
                      \subseteq consolidated_database[franchise]
      ]_vars

\* The details in hand have a 2022-23 entry with "Utah Hockey Club" and a
\* 2015-16 entry with "Atlanta Thrashers", the range is 2020..2025: the
\* player goes under "UTA" and not under "WPG".
C27_Witness ==
    /\ HandlesDetails
    /\ cli.start_year = 2020 /\ cli.end_year = 2025
    /\ \E entry \in entries_of(details_result.val.val) :
          places_under(entry, "UTA")
    /\ \E entry \in entries_of(details_result.val.val) :
          /\ ~start_year_in_range(entry)
          /\ entry.team_name = Some("Atlanta Thrashers")
    /\ consolidated_database["WPG"] = {}

\* C23: the PlayerInfo made from the details of a player has, as birth
\* place, the city, ", " and the country when both are present, the country
\* alone when the city is absent, and nothing when the country is absent,
\* a present city included.
C23_BirthPlaceOfCityAndCountry ==
    [][ HandlesDetails =>
          LET details == details_result.val.val IN
          \A franchise \in DOMAIN consolidated_database :
              \A info \in consolidated_database'[franchise]
                             \ consolidated_database[franchise] :
                  /\ (details.birth_city.some /\ details.birth_country.some)
                        => info.birth_place
                              = Some(details.birth_city.val \o <<44, 32>>
                                        \o details.birth_country.val)
                  /\ (~details.birth_city.some /\ details.birth_country.some)
                        => info.birth_place = details.birth_country
                  /\ ~details.birth_country.some => info.birth_place = None
      ]_vars

\* The output lists under "UTA" a player born in "Ottawa, CAN".
C23_Witness ==
    /\ output_file.some
    /\ \E info \in Range(output_file.val.teams["UTA"]) :
          info.birth_place
              = Some(<<79, 116, 116, 97, 119, 97, 44, 32, 67, 65, 78>>)

\* The requested teams generate_hint has a player list for, and that list.
requested_teams ==
    { t \in Range(hint_teams) :
        /\ team_code_from_name(t).some
        /\ team_code_from_name(t).val \in DOMAIN teams_obj.val }
list_of(team) == teams_obj.val[team_code_from_name(team).val]

\* The id of the entry is one of used_players.
is_used(entry) ==
    /\ id_in(entry).some
    /\ \E i \in DOMAIN used_players : used_players[i] = id_in(entry).val

unused_entries ==
    { entry \in UNION { Range(list_of(t)) : t \in requested_teams } : ~is_used(entry) }

\* The number of distinct requested teams whose list has the player.
coverage(entry) ==
    Cardinality({ t \in requested_teams :
                    \E i \in DOMAIN list_of(t) : is_player(list_of(t)[i], entry) })

\* Where the loops meet the entry first: the team of the request, then the
\* place in the list of that team.
first_met(entry) ==
    LET ti == CHOOSE i \in DOMAIN hint_teams :
                  /\ hint_teams[i] \in requested_teams
                  /\ entry \in Range(list_of(hint_teams[i]))
                  /\ \A j \in 1..(i - 1) :
                        hint_teams[j] \in requested_teams
                        => entry \notin Range(list_of(hint_teams[j]))
        list == list_of(hint_teams[ti])
        pi == CHOOSE i \in DOMAIN list :
                  list[i] = entry /\ \A j \in 1..(i - 1) : list[j] # entry
    IN ti * (MaxEntries + 2) + pi

\* C25: the best player generate_hint selects is an entry of the list of a
\* requested team whose id is not in used_players, no unused entry is in
\* the lists of more distinct requested teams, no unused entry in the lists
\* of as many teams is met before it, and none is selected exactly when
\* the lists of the requested teams hold no unused entry.
C25_BestPlayerCoversMostTeams ==
    hint_pc = "landing" =>
        /\ best_player.some = (unused_entries # {})
        /\ best_player.some =>
              /\ best_player.val \in unused_entries
              /\ \A entry \in unused_entries :
                    /\ coverage(entry) <= coverage(best_player.val)
                    /\ (coverage(entry) = coverage(best_player.val)
                        /\ ~is_player(entry, best_player.val))
                        => first_met(best_player.val) < first_met(entry)

accepted(r) == req_result[r] = Some(Ok("success"))
refused(r) == req_result[r] = Some(Ok("already_submitted"))
usage_of(player) ==
    IF kv_usage.some /\ player \in DOMAIN kv_usage.val THEN kv_usage.val[player] ELSE 0

C29_NoLostIncrementNoDoubleAcceptance ==
    (\A r \in DOMAIN req_pc : accepted(r) \/ refused(r))
    => /\ \A player \in {"Jane Doe", "John Doe"} :
             usage_of(player)
                = Cardinality({ r \in DOMAIN req_pc :
                                  accepted(r) /\ player \in Range(req_players[r]) })
       /\ \A r1, r2 \in DOMAIN req_pc :
             (accepted(r1) /\ accepted(r2) /\ r1 # r2) => req_user[r1] # req_user[r2]

\* C30: a call that returns an error leaves the store as it was: the step
\* that returns the error changes nothing in the store, and it is not the
\* step of a call that has already written the usage statistics.
C30_ErrorLeavesTheStoreUnchanged ==
    [][ \A r \in DOMAIN req_pc :
          (~req_result[r].some /\ req_result'[r].some /\ ~req_result'[r].val.ok)
          => /\ kv_usage' = kv_usage
             /\ kv_submissions' = kv_submissions
             /\ req_pc[r] # "insert_submission"
      ]_vars

====
